---- MODULE Spec2Model ----
(***************************************************************************)
(* Model of the operator-workshop reconciliation core: the database        *)
(* operations ports (postgresqlops, the fake and the real mysqlops), the   *)
(* reconciliation methods (customobject.Resource and the processUpdate /   *)
(* processDelete functions of the solutions), the poll loop of solution1   *)
(* and the event loops of solution2 and solution3.                         *)
(***************************************************************************)
EXTENDS Integers, Sequences, FiniteSets, TLC

VARIABLES
    program,      \* which solution runs: "solution1", "solution1mysql", "solution2", "solution3"
    port,         \* the ops package behind it: "postgresql", "fake", "mysql"
    databases,    \* the backend's database table: name -> Database
    users,        \* the backend's users (pg_user)
    last,         \* the latest reconciliation call: method, object, result, port calls
    applied,      \* name -> owner of the latest record EnsureCreated applied without error
    pc,           \* where the loop of mainError / Run stands
    ctxCancelled, \* the context handed to the loop has been cancelled
    retErr,       \* what the loop returned
    configs,      \* poll: the custom objects listed in this cycle (configs.Items)
    idx,          \* poll: the index of the next item of configs
    cycleDbs,     \* poll: dbs, the databases listed at the start of this cycle
    todo,         \* poll: the databases of cycleDbs the deletion loop has not visited yet
    validObjs,    \* poll: the objects of this cycle that passed validation
    log,          \* what this cycle (or the latest event) did, step by step
    sleeps,       \* poll: the reconciliation intervals slept since the cycle began
    watcher,      \* stream: the watcher's result channel: "open", "closed", "stopped"
    attempt,      \* bootstrap: the number of the readiness check at hand
    exit,         \* the process: whether it has exited, with which code and how
    inflight,     \* the reconciliation passes begun and not finished, with the goroutine running each
    events,       \* the events delivered to the loop's channels and not taken yet
    mux,          \* the fake's mutex: "free" or the goroutine holding it
    callers,      \* the goroutines calling the fake, each with its call and how far it got
    stored,       \* poll: the custom objects the API server held at the latest list
    sigs          \* main's signal case: the signals taken, the latest one, the calls of mainCancelFunc

coreVars == <<program, port, databases, users>>
histVars == <<last, applied>>
loopVars == <<pc, ctxCancelled, retErr>>
pollVars == <<configs, idx, cycleDbs, todo, validObjs, sleeps, stored>>
mainVars == <<attempt, exit, sigs>>
fakeVars == <<mux, callers>>
taskVars == <<inflight, events, mux, callers>>
vars == <<program, port, databases, users, last, applied, pc, ctxCancelled, retErr,
          configs, idx, cycleDbs, todo, validObjs, log, sleeps, watcher, attempt, exit,
          inflight, events, mux, callers, stored, sigs>>

-----------------------------------------------------------------------------
(* Values *)

\* the most backend faults one reconciliation call meets
MaxFaults == 1

\* the most custom objects one list of the Kubernetes API returns
MaxItems == 2

Names == {"shop", "blog"}
Owners == {"alice"}

\* cmd/solution1/main.go: dbUserDefault, the user the operator connects as
DBUser == "postgres"

\* postgresqlops.ListDatabases leaves these out of its result
SystemDBs == {"postgres", "template0", "template1"}

NameVals == Names \cup {""}
OwnerVals == Owners \cup {DBUser, ""}

\* customobject.PostgreSQLConfig (Spec.Database, Spec.Owner)
PostgreSQLConfig == [Database : NameVals, Owner : OwnerVals]

\* postgresqlops.Database / mysqlops.Database
Database(name, owner) == [Name |-> name, Owner |-> owner]

\* the zero value Database{}
ZeroDatabase == Database("", "")

\* the points at which a call to the backend can fail (connection, SQL error)
FaultPoints == {"list", "hasUser", "createUser", "hasDatabase", "exec"}

NoError == ""

\* validateSpec / PostgreSQLConfigSpec.Validate
Validate(obj) ==
    IF obj.Database = "" THEN "database is not set"
    ELSE IF obj.Owner = "" THEN "owner is not set"
    ELSE NoError

-----------------------------------------------------------------------------
(* postgresqlops: the backend is [dbs, users] *)

Backend(dbs, us) == [dbs |-> dbs, users |-> us]

PortResult(st, err) == [st |-> st, err |-> err]

\* the query without its NOT IN ('postgres', 'template0', 'template1')
PgListDatabasesAll(st, f) ==
    IF "list" \in f
    THEN [dbs |-> {}, err |-> "listing databases"]
    ELSE [dbs |-> {st.dbs[k] : k \in DOMAIN st.dbs}, err |-> NoError]

\* ListDatabases: the rows of pg_database joined with pg_user, system ones left out
PgListDatabases(st, f) ==
    IF "list" \in f
    THEN [dbs |-> {}, err |-> "listing databases"]
    ELSE [dbs |-> {st.dbs[k] : k \in DOMAIN st.dbs \ SystemDBs}, err |-> NoError]

\* hasDatabase: ListDatabases, then a search by name
PgHasDatabase(st, name, f) ==
    IF "hasDatabase" \in f
    THEN [has |-> FALSE, err |-> "checking database exists"]
    ELSE [has |-> \E db \in PgListDatabases(st, {}).dbs : db.Name = name, err |-> NoError]

\* hasUser: a scan of pg_user
PgHasUser(st, name, f) ==
    IF "hasUser" \in f
    THEN [has |-> FALSE, err |-> "listing users"]
    ELSE [has |-> name \in st.users, err |-> NoError]

\* createUser: CREATE USER "user"; a zero-length identifier is an SQL error
PgCreateUser(st, user, f) ==
    IF "createUser" \in f \/ user = "" \/ user \in st.users
    THEN PortResult(st, "creating user")
    ELSE PortResult(Backend(st.dbs, st.users \cup {user}), NoError)

\* CREATE DATABASE "name": the new database belongs to the connected user
PgExecCreateDatabase(st, name, f) ==
    IF "exec" \in f \/ name = "" \/ name \in DOMAIN st.dbs
    THEN PortResult(st, "creating database")
    ELSE PortResult(Backend((name :> Database(name, DBUser)) @@ st.dbs, st.users), NoError)

\* ALTER DATABASE "name" OWNER TO "owner"
PgExecAlterOwner(st, name, owner, f) ==
    IF "exec" \in f \/ name \notin DOMAIN st.dbs \/ owner \notin st.users
    THEN PortResult(st, "changing owner")
    ELSE PortResult(Backend([st.dbs EXCEPT ![name] = Database(name, owner)], st.users), NoError)

\* DROP DATABASE "name"
PgExecDropDatabase(st, name, f) ==
    IF "exec" \in f \/ name \notin DOMAIN st.dbs
    THEN PortResult(st, "deleting database")
    ELSE PortResult(Backend([k \in DOMAIN st.dbs \ {name} |-> st.dbs[k]], st.users), NoError)

\* the user step shared by CreateDatabase and ChangeDatabaseOwner:
\* createUser's error is dropped
PgEnsureUser(st, owner, f) ==
    LET h == PgHasUser(st, owner, f) IN
    IF h.err # NoError THEN PortResult(st, "checking owner exists")
    ELSE IF ~h.has THEN PortResult(PgCreateUser(st, owner, f).st, NoError)
    ELSE PortResult(st, NoError)

PgCreateDatabase(st, name, owner, f) ==
    LET u == PgEnsureUser(st, owner, f) IN
    IF u.err # NoError THEN u
    ELSE LET h == PgHasDatabase(u.st, name, f) IN
         IF h.err # NoError THEN PortResult(u.st, "checking database exists")
         ELSE IF ~h.has THEN PgExecCreateDatabase(u.st, name, f)
         ELSE PortResult(u.st, NoError)

PgChangeDatabaseOwner(st, name, owner, f) ==
    LET u == PgEnsureUser(st, owner, f) IN
    IF u.err # NoError THEN u
    ELSE PgExecAlterOwner(u.st, name, owner, f)

PgDeleteDatabase(st, name, f) ==
    LET h == PgHasDatabase(st, name, f) IN
    IF h.err # NoError THEN PortResult(st, "checing database exists")
    ELSE IF h.has THEN PgExecDropDatabase(st, name, f)
    ELSE PortResult(st, NoError)

-----------------------------------------------------------------------------
(* mysqlops, the fake: a global map guarded by a mutex *)

FakeCreateDatabase(st, name, owner) ==
    PortResult(Backend((name :> Database(name, owner)) @@ st.dbs, st.users), NoError)

\* ChangeDatabaseOwner storing an entry for a name it did not find
FakeChangeDatabaseOwnerUpsert(st, name, owner) ==
    PortResult(Backend((name :> Database(name, owner)) @@ st.dbs, st.users),
               IF name \notin DOMAIN st.dbs THEN "not found" ELSE NoError)

FakeChangeDatabaseOwner(st, name, owner) ==
    IF name \notin DOMAIN st.dbs
    THEN PortResult(st, "not found")
    ELSE LET db == [st.dbs[name] EXCEPT !.Owner = owner] IN
         PortResult(Backend((db.Name :> db) @@ st.dbs, st.users), NoError)

FakeDeleteDatabase(st, name) ==
    IF name \notin DOMAIN st.dbs
    THEN PortResult(st, "not found")
    ELSE PortResult(Backend([k \in DOMAIN st.dbs \ {name} |-> st.dbs[k]], st.users), NoError)

FakeListDatabases(st) ==
    [dbs |-> {st.dbs[k] : k \in DOMAIN st.dbs}, err |-> NoError]

\* the goroutines that call the fake at the same time
Callers == {"g1", "g2"}

\* the calls a goroutine can make
FakeCalls ==
    [op : {"create", "change-owner"}, name : Names, owner : Owners \cup {DBUser}]
    \cup [op : {"delete"}, name : Names, owner : {""}]
    \cup [op : {"list"}, name : {""}, owner : {""}]

\* what a method has read from the map: db, ok := databases[name], or the
\* values the range loop of ListDatabases collected
NotRead == [ok |-> TRUE, db |-> ZeroDatabase, dbs |-> {}]

FakeLookup(dbs, call) ==
    CASE call.op \in {"change-owner", "delete"} ->
            [ok |-> call.name \in DOMAIN dbs,
             db |-> IF call.name \in DOMAIN dbs THEN dbs[call.name] ELSE ZeroDatabase,
             dbs |-> {}]
      [] call.op = "list" ->
            [ok |-> TRUE, db |-> ZeroDatabase, dbs |-> {dbs[k] : k \in DOMAIN dbs}]
      [] OTHER -> NotRead

\* the write of ChangeDatabaseOwner keyed by the new owner
FakeStoreUnderOwner(dbs, call, seen) ==
    CASE call.op = "create" -> (call.name :> Database(call.name, call.owner)) @@ dbs
      [] call.op = "change-owner" ->
            IF ~seen.ok THEN dbs
            ELSE LET db == [seen.db EXCEPT !.Owner = call.owner] IN (db.Owner :> db) @@ dbs
      [] call.op = "delete" ->
            IF ~seen.ok THEN dbs
            ELSE [k \in DOMAIN dbs \ {call.name} |-> dbs[k]]
      [] OTHER -> dbs

\* the map after the method's write, made from what the method read
FakeStore(dbs, call, seen) ==
    CASE call.op = "create" -> (call.name :> Database(call.name, call.owner)) @@ dbs
      [] call.op = "change-owner" ->
            IF ~seen.ok THEN dbs
            ELSE LET db == [seen.db EXCEPT !.Owner = call.owner] IN (db.Name :> db) @@ dbs
      [] call.op = "delete" ->
            IF ~seen.ok THEN dbs
            ELSE [k \in DOMAIN dbs \ {call.name} |-> dbs[k]]
      [] OTHER -> dbs

\* the error the method returns
FakeError(call, seen) ==
    IF call.op \in {"change-owner", "delete"} /\ ~seen.ok THEN "not found" ELSE NoError

\* a goroutine outside the package
Idle == [pc |-> "idle", call |-> [op |-> "none", name |-> "", owner |-> ""],
         seen |-> NotRead, before |-> <<>>, err |-> NoError]

NoCallers == [c \in Callers |-> Idle]

-----------------------------------------------------------------------------
(* mysqlops, the SQL one: databases have no owner *)

\* CREATE DATABASE IF NOT EXISTS `name`
MyCreateDatabase(st, name, owner, f) ==
    IF "exec" \in f \/ name = ""
    THEN PortResult(st, "creating database")
    ELSE IF name \in DOMAIN st.dbs THEN PortResult(st, NoError)
    ELSE PortResult(Backend((name :> Database(name, "")) @@ st.dbs, st.users), NoError)

MyChangeDatabaseOwner(st, name, owner) == PortResult(st, NoError)

\* DROP DATABASE `name`
MyDeleteDatabase(st, name, f) ==
    IF "exec" \in f \/ name \notin DOMAIN st.dbs
    THEN PortResult(st, "deleting database")
    ELSE PortResult(Backend([k \in DOMAIN st.dbs \ {name} |-> st.dbs[k]], st.users), NoError)

\* SHOW DATABASES: names only, Owner stays the zero value
MyListDatabases(st, f) ==
    IF "list" \in f
    THEN [dbs |-> {}, err |-> "listing databases"]
    ELSE [dbs |-> {Database(k, "") : k \in DOMAIN st.dbs}, err |-> NoError]

-----------------------------------------------------------------------------
(* The Database Operations Port, by package *)

ListDatabases(p, st, f) ==
    CASE p = "postgresql" -> PgListDatabases(st, f)
      [] p = "fake" -> FakeListDatabases(st)
      [] p = "mysql" -> MyListDatabases(st, f)

CreateDatabase(p, st, name, owner, f) ==
    CASE p = "postgresql" -> PgCreateDatabase(st, name, owner, f)
      [] p = "fake" -> FakeCreateDatabase(st, name, owner)
      [] p = "mysql" -> MyCreateDatabase(st, name, owner, f)

ChangeDatabaseOwner(p, st, name, owner, f) ==
    CASE p = "postgresql" -> PgChangeDatabaseOwner(st, name, owner, f)
      [] p = "fake" -> FakeChangeDatabaseOwner(st, name, owner)
      [] p = "mysql" -> MyChangeDatabaseOwner(st, name, owner)

DeleteDatabase(p, st, name, f) ==
    CASE p = "postgresql" -> PgDeleteDatabase(st, name, f)
      [] p = "fake" -> FakeDeleteDatabase(st, name)
      [] p = "mysql" -> MyDeleteDatabase(st, name, f)

\* the faults a call can meet: the fake never fails on its own
Faults(p) ==
    IF p = "fake" THEN {{}}
    ELSE {f \in SUBSET FaultPoints : Cardinality(f) <= MaxFaults}

-----------------------------------------------------------------------------
(* Reconciliation methods *)

\* a call on the port, as the reconciliation methods issue it
Call(op, name, owner) == [op |-> op, name |-> name, owner |-> owner]

\* a status string; arg is the value formatted into it
Status(text, arg) == [text |-> text, arg |-> arg]

NoStatus == Status("", "")

Result(st, status, err, calls) == [st |-> st, status |-> status, err |-> err, calls |-> calls]

\* findDB reporting a match on the fall-through path too
findDBAlwaysOk(dbs, name) ==
    IF \E db \in dbs : db.Name = name
    THEN [db |-> CHOOSE db \in dbs : db.Name = name, ok |-> TRUE]
    ELSE [db |-> ZeroDatabase, ok |-> TRUE]

\* customobject.findDB
findDB(dbs, name) ==
    IF \E db \in dbs : db.Name = name
    THEN [db |-> CHOOSE db \in dbs : db.Name = name, ok |-> TRUE]
    ELSE [db |-> ZeroDatabase, ok |-> FALSE]

\* the search loop keeping the name of the match only
foundDBNameOnly(dbs, name) ==
    IF \E db \in dbs : db.Name = name
    THEN Database(name, "")
    ELSE ZeroDatabase

\* the search loop of processUpdate / processDelete: foundDB stays the zero value
foundDB(dbs, name) ==
    IF \E db \in dbs : db.Name = name
    THEN CHOOSE db \in dbs : db.Name = name
    ELSE ZeroDatabase

\* EnsureCreated trying a failed create a second time
EnsureCreatedRetrying(p, st, obj, f) ==
    LET l == ListDatabases(p, st, f)
        listed == <<Call("list", "", "")>>
    IN
    IF l.err # NoError THEN Result(st, NoStatus, "listing databases", listed)
    ELSE LET r == findDB(l.dbs, obj.Database) IN
         IF ~r.ok
         THEN LET c == CreateDatabase(p, st, obj.Database, obj.Owner, f)
                  c2 == CreateDatabase(p, c.st, obj.Database, obj.Owner, {})
                  once == Append(listed, Call("create", obj.Database, obj.Owner))
                  twice == Append(once, Call("create", obj.Database, obj.Owner))
              IN IF c.err = NoError
                 THEN Result(c.st, Status("database created", ""), NoError, once)
                 ELSE IF c2.err = NoError
                 THEN Result(c2.st, Status("database created", ""), NoError, twice)
                 ELSE Result(c2.st, NoStatus, "creating database", twice)
         ELSE IF r.db.Owner # obj.Owner
         THEN LET c == ChangeDatabaseOwner(p, st, obj.Database, obj.Owner, f)
                  calls == Append(listed, Call("change-owner", obj.Database, obj.Owner))
              IN IF c.err # NoError
                 THEN Result(c.st, NoStatus, "chaning owner", calls)
                 ELSE Result(c.st, Status("owner changed", r.db.Owner), NoError, calls)
         ELSE Result(st, Status("already created", ""), NoError, listed)

\* Resource.EnsureCreated
EnsureCreated(p, st, obj, f) ==
    LET l == ListDatabases(p, st, f)
        listed == <<Call("list", "", "")>>
    IN
    IF l.err # NoError THEN Result(st, NoStatus, "listing databases", listed)
    ELSE LET r == findDB(l.dbs, obj.Database) IN
         IF ~r.ok
         THEN LET c == CreateDatabase(p, st, obj.Database, obj.Owner, f)
                  calls == Append(listed, Call("create", obj.Database, obj.Owner))
              IN IF c.err # NoError
                 THEN Result(c.st, NoStatus, "creating database", calls)
                 ELSE Result(c.st, Status("database created", ""), NoError, calls)
         ELSE IF r.db.Owner # obj.Owner
         THEN LET c == ChangeDatabaseOwner(p, st, obj.Database, obj.Owner, f)
                  calls == Append(listed, Call("change-owner", obj.Database, obj.Owner))
              IN IF c.err # NoError
                 THEN Result(c.st, NoStatus, "chaning owner", calls)
                 ELSE Result(c.st, Status("owner changed", r.db.Owner), NoError, calls)
         ELSE Result(st, Status("already created", ""), NoError, listed)

\* EnsureDeleted deleting without looking the database up
EnsureDeletedNoLookup(p, st, obj, f) ==
    LET l == ListDatabases(p, st, f)
        listed == <<Call("list", "", "")>>
    IN
    IF l.err # NoError THEN Result(st, NoStatus, "listing databases", listed)
    ELSE LET c == DeleteDatabase(p, st, obj.Database, f)
             calls == Append(listed, Call("delete", obj.Database, ""))
         IN IF c.err # NoError
            THEN Result(c.st, NoStatus, "deleting database", calls)
            ELSE Result(c.st, Status("database deleted", ""), NoError, calls)

\* Resource.EnsureDeleted
EnsureDeleted(p, st, obj, f) ==
    LET l == ListDatabases(p, st, f)
        listed == <<Call("list", "", "")>>
    IN
    IF l.err # NoError THEN Result(st, NoStatus, "listing databases", listed)
    ELSE LET r == findDB(l.dbs, obj.Database) IN
         IF r.ok
         THEN LET c == DeleteDatabase(p, st, obj.Database, f)
                  calls == Append(listed, Call("delete", obj.Database, ""))
              IN IF c.err # NoError
                 THEN Result(c.st, NoStatus, "deleting database", calls)
                 ELSE Result(c.st, Status("database deleted", ""), NoError, calls)
         ELSE Result(st, Status("already deleted", ""), NoError, listed)

\* processUpdate without the owner comparison
processUpdateNoOwnerCheck(p, st, obj, f) ==
    LET l == ListDatabases(p, st, f)
        listed == <<Call("list", "", "")>>
    IN
    IF l.err # NoError THEN Result(st, NoStatus, "listing databases", listed)
    ELSE LET db == foundDB(l.dbs, obj.Database) IN
         IF db.Name = ""
         THEN LET c == CreateDatabase(p, st, obj.Database, obj.Owner, f)
                  calls == Append(listed, Call("create", obj.Database, obj.Owner))
              IN IF c.err # NoError
                 THEN Result(c.st, NoStatus, "creating database", calls)
                 ELSE Result(c.st, Status("database created", ""), NoError, calls)
         ELSE Result(st, Status("already reconcilied", ""), NoError, listed)

\* processUpdate of solution1 (the same text in solution2 and the mysql solution1)
processUpdate(p, st, obj, f) ==
    LET l == ListDatabases(p, st, f)
        listed == <<Call("list", "", "")>>
    IN
    IF l.err # NoError THEN Result(st, NoStatus, "listing databases", listed)
    ELSE LET db == foundDB(l.dbs, obj.Database) IN
         IF db.Name = ""
         THEN LET c == CreateDatabase(p, st, obj.Database, obj.Owner, f)
                  calls == Append(listed, Call("create", obj.Database, obj.Owner))
              IN IF c.err # NoError
                 THEN Result(c.st, NoStatus, "creating database", calls)
                 ELSE Result(c.st, Status("database created", ""), NoError, calls)
         ELSE IF db.Owner # obj.Owner
         THEN LET c == ChangeDatabaseOwner(p, st, obj.Database, obj.Owner, f)
                  calls == Append(listed, Call("change-owner", obj.Database, obj.Owner))
              IN IF c.err # NoError
                 THEN Result(c.st, NoStatus, "chaning owner", calls)
                 ELSE Result(c.st, Status("owner changed", db.Owner), NoError, calls)
         ELSE Result(st, Status("already reconcilied", ""), NoError, listed)

\* processDelete going on to the delete when the list failed
processDeleteAfterFailedList(p, st, obj, f) ==
    LET l == ListDatabases(p, st, f)
        listed == <<Call("list", "", "")>>
        c == DeleteDatabase(p, st, obj.Database, f)
        calls == Append(listed, Call("delete", obj.Database, ""))
    IN
    IF l.err # NoError THEN Result(c.st, NoStatus, "listing databases", calls)
    ELSE LET db == foundDB(l.dbs, obj.Database) IN
         IF db.Name # ""
         THEN IF c.err # NoError
              THEN Result(c.st, NoStatus, "deleting database", calls)
              ELSE Result(c.st, Status("database deleted", ""), NoError, calls)
         ELSE Result(st, Status("already reconcilied", ""), NoError, listed)

\* processDelete of solution1 (found flag) and of solution2 (foundDB.Name != "")
processDelete(p, st, obj, f) ==
    LET l == ListDatabases(p, st, f)
        listed == <<Call("list", "", "")>>
    IN
    IF l.err # NoError THEN Result(st, NoStatus, "listing databases", listed)
    ELSE LET db == foundDB(l.dbs, obj.Database) IN
         IF db.Name # ""
         THEN LET c == DeleteDatabase(p, st, obj.Database, f)
                  calls == Append(listed, Call("delete", obj.Database, ""))
              IN IF c.err # NoError
                 THEN Result(c.st, NoStatus, "deleting database", calls)
                 ELSE Result(c.st, Status("database deleted", ""), NoError, calls)
         ELSE Result(st, Status("already reconcilied", ""), NoError, listed)

\* solution3 reconciles through customobject.Resource, the others through
\* their own processUpdate / processDelete
ReconcileUpdate(prog, p, st, obj, f) ==
    IF prog = "solution3" THEN EnsureCreated(p, st, obj, f) ELSE processUpdate(p, st, obj, f)

ReconcileDelete(prog, p, st, obj, f) ==
    IF prog = "solution3" THEN EnsureDeleted(p, st, obj, f) ELSE processDelete(p, st, obj, f)

\* the ReconciliationOutcome a (status, error) pair stands for
Outcome(status, err) ==
    IF err # NoError THEN "failed"
    ELSE CASE status.text = "database created" -> "created"
           [] status.text = "owner changed" -> "owner-changed"
           [] status.text = "database deleted" -> "deleted"
           [] status.text \in {"already created", "already deleted", "already reconcilied"} -> "unchanged"
           [] OTHER -> "none"

\* what ListDatabases reports, faults aside: the observed resources
Observed(p, st) == ListDatabases(p, st, {}).dbs

-----------------------------------------------------------------------------
(* The reconciliation methods called one after another by a single caller *)

\* the packages each program is built on
Builds ==
    { <<"solution1", "postgresql">>, <<"solution3", "postgresql">>,
      <<"solution1mysql", "fake">>, <<"solution1mysql", "mysql">>,
      <<"solution2", "fake">>, <<"solution2", "mysql">> }

\* a PostgreSQL server has its system databases and the connected user
InitialBackend(p) ==
    IF p = "postgresql"
    THEN Backend([k \in SystemDBs |-> Database(k, DBUser)], {DBUser})
    ELSE Backend([k \in {} |-> ZeroDatabase], {})

NoCall == [method |-> "none", obj |-> [Database |-> "", Owner |-> ""],
           status |-> NoStatus, err |-> NoError, calls |-> <<>>, before |-> {},
           repeats |-> "none"]

\* the objects a program hands to its reconciliation methods: solution3's
\* handlers go on after a failed validation, the others stop
Reconcilable(prog) ==
    IF prog = "solution3" THEN PostgreSQLConfig
    ELSE {obj \in PostgreSQLConfig : Validate(obj) = NoError}

\* the record of a call; repeats is the outcome of the call before it when that
\* was the same method on the same object, "none" otherwise
CallRecord(method, obj, r, before) ==
    [method |-> method, obj |-> obj, status |-> r.status, err |-> r.err,
     calls |-> r.calls, before |-> before,
     repeats |-> IF last.method = method /\ last.obj = obj
                 THEN Outcome(last.status, last.err) ELSE "none"]

InitCore(builds) ==
    /\ \E b \in builds : program = b[1] /\ port = b[2]
    /\ databases = InitialBackend(port).dbs
    /\ users = InitialBackend(port).users

InitHist ==
    /\ last = NoCall
    /\ applied = [n \in Names |-> ""]

\* main has taken no signal yet
NoSignals == [taken |-> 0, latest |-> "none", cancels |-> 0]

\* the process runs
NotExited == [done |-> FALSE, code |-> 0, how |-> "none"]

\* the loop is entered: the first readiness check reported ready
InitLoop ==
    /\ pc = "loop"
    /\ ctxCancelled = FALSE
    /\ retErr = NoError
    /\ configs = <<>>
    /\ idx = 1
    /\ cycleDbs = {}
    /\ todo = {}
    /\ validObjs = <<>>
    /\ log = <<>>
    /\ sleeps = 0
    /\ watcher = "open"
    /\ attempt = 1
    /\ exit = NotExited
    /\ sigs = NoSignals
    /\ inflight = {}
    /\ events = <<>>
    /\ mux = "free"
    /\ callers = NoCallers

Init ==
    /\ InitCore({b \in Builds : b[1] # "solution2"})
    /\ InitHist
    /\ InitLoop
    /\ stored = <<>>

CallEnsureCreated ==
    \E obj \in Reconcilable(program), f \in Faults(port) :
        LET st == Backend(databases, users)
            r == ReconcileUpdate(program, port, st, obj, f)
        IN /\ databases' = r.st.dbs
           /\ users' = r.st.users
           /\ last' = CallRecord("EnsureCreated", obj, r, Observed(port, st))
           /\ applied' = IF obj.Database \in Names
                         THEN [applied EXCEPT ![obj.Database] =
                                  IF r.err = NoError THEN obj.Owner ELSE ""]
                         ELSE applied
           /\ UNCHANGED <<program, port, loopVars, pollVars, log, watcher, mainVars, taskVars>>

CallEnsureDeleted ==
    \E obj \in Reconcilable(program), f \in Faults(port) :
        LET st == Backend(databases, users)
            r == ReconcileDelete(program, port, st, obj, f)
        IN /\ databases' = r.st.dbs
           /\ users' = r.st.users
           /\ last' = CallRecord("EnsureDeleted", obj, r, Observed(port, st))
           /\ applied' = IF obj.Database \in Names
                         THEN [applied EXCEPT ![obj.Database] = ""]
                         ELSE applied
           /\ UNCHANGED <<program, port, loopVars, pollVars, log, watcher, mainVars, taskVars>>

Next ==
    \/ CallEnsureCreated
    \/ CallEnsureDeleted

Spec == Init /\ [][Next]_vars

-----------------------------------------------------------------------------
(* The port on its own: any caller, any order of calls *)

\* the record of a call of a port method: its arguments, the faults it met,
\* what the list showed before it and the error it returned
PortCallRecord(method, name, owner, f, r, before) ==
    [method |-> method, obj |-> [Database |-> name, Owner |-> owner],
     status |-> NoStatus, err |-> r.err, calls |-> <<>>, before |-> before,
     repeats |-> "none", faults |-> f]

PortCreate ==
    \E name \in Names, owner \in Owners \cup {DBUser}, f \in Faults(port) :
        LET st == Backend(databases, users)
            r == CreateDatabase(port, st, name, owner, f)
        IN /\ databases' = r.st.dbs
           /\ users' = r.st.users
           /\ last' = PortCallRecord("CreateDatabase", name, owner, f, r, Observed(port, st))
           /\ UNCHANGED <<program, port, applied, loopVars, pollVars, log, watcher, mainVars,
                          taskVars>>

PortChangeOwner ==
    \E name \in Names, owner \in Owners \cup {DBUser}, f \in Faults(port) :
        LET st == Backend(databases, users)
            r == ChangeDatabaseOwner(port, st, name, owner, f)
        IN /\ databases' = r.st.dbs
           /\ users' = r.st.users
           /\ last' = PortCallRecord("ChangeDatabaseOwner", name, owner, f, r, Observed(port, st))
           /\ UNCHANGED <<program, port, applied, loopVars, pollVars, log, watcher, mainVars,
                          taskVars>>

PortDelete ==
    \E name \in Names, f \in Faults(port) :
        LET st == Backend(databases, users)
            r == DeleteDatabase(port, st, name, f)
        IN /\ databases' = r.st.dbs
           /\ users' = r.st.users
           /\ last' = PortCallRecord("DeleteDatabase", name, "", f, r, Observed(port, st))
           /\ UNCHANGED <<program, port, applied, loopVars, pollVars, log, watcher, mainVars,
                          taskVars>>

PortList ==
    \E f \in Faults(port) :
        LET st == Backend(databases, users)
            r == ListDatabases(port, st, f)
        IN /\ last' = PortCallRecord("ListDatabases", "", "", f, r, r.dbs)
           /\ UNCHANGED <<coreVars, applied, loopVars, pollVars, log, watcher, mainVars,
                          taskVars>>

InitPort ==
    /\ InitCore(Builds)
    /\ InitHist
    /\ InitLoop
    /\ stored = <<>>

NextPort ==
    \/ PortCreate
    \/ PortChangeOwner
    \/ PortDelete
    \/ PortList

SpecPort == InitPort /\ [][NextPort]_vars

-----------------------------------------------------------------------------
(* The fake under concurrent callers: every method is                      *)
(* mux.Lock(); defer mux.Unlock(); read the map; write the map; return     *)

\* a goroutine calls a method of the fake and arrives at mux.Lock()
FakeCall ==
    /\ port = "fake"
    /\ \E c \in Callers, call \in FakeCalls :
         /\ callers[c].pc = "idle"
         /\ callers' = [callers EXCEPT ![c] = [Idle EXCEPT !.pc = "waiting", !.call = call]]
    /\ UNCHANGED <<coreVars, histVars, mainVars, loopVars, pollVars, log, watcher, inflight, events, mux>>

\* a Lock that does not wait
CanLockAlways(m) == TRUE

\* mux.Lock() returns when nobody holds the mutex
CanLock(m) == m = "free"

\* mux.Lock()
FakeLock ==
    /\ port = "fake"
    /\ \E c \in Callers :
         /\ callers[c].pc = "waiting"
         /\ CanLock(mux)
         /\ mux' = c
         /\ callers' = [callers EXCEPT ![c].pc = "locked", ![c].before = databases]
    /\ UNCHANGED <<coreVars, histVars, mainVars, loopVars, pollVars, log, watcher, inflight, events>>

\* the method reads the map
FakeRead ==
    /\ port = "fake"
    /\ \E c \in Callers :
         /\ callers[c].pc = "locked"
         /\ callers' = [callers EXCEPT ![c].pc = "read",
                                       ![c].seen = FakeLookup(databases, callers[c].call)]
    /\ UNCHANGED <<coreVars, histVars, mainVars, loopVars, pollVars, log, watcher, inflight, events, mux>>

\* the method writes the map, or finds it has nothing to write, and returns
FakeWrite ==
    /\ port = "fake"
    /\ \E c \in Callers :
         /\ callers[c].pc = "read"
         /\ databases' = FakeStore(databases, callers[c].call, callers[c].seen)
         /\ callers' = [callers EXCEPT ![c].pc = "done",
                                       ![c].err = FakeError(callers[c].call, callers[c].seen)]
    /\ UNCHANGED <<program, port, users, histVars, mainVars, loopVars, pollVars, log, watcher,
                   inflight, events, mux>>

\* the deferred mux.Unlock()
FakeUnlock ==
    /\ port = "fake"
    /\ \E c \in Callers :
         /\ callers[c].pc = "done"
         /\ mux' = "free"
         /\ callers' = [callers EXCEPT ![c] = Idle]
    /\ UNCHANGED <<coreVars, histVars, mainVars, loopVars, pollVars, log, watcher, inflight, events>>

InitFake ==
    /\ InitCore({b \in Builds : b[2] = "fake"})
    /\ InitHist
    /\ InitLoop
    /\ stored = <<>>

NextFake ==
    \/ FakeCall
    \/ FakeLock
    \/ FakeRead
    \/ FakeWrite
    \/ FakeUnlock

SpecFake == InitFake /\ [][NextFake]_vars

-----------------------------------------------------------------------------
(* Poll mode: the reconciliation loop of solution1 and of its mysqlops twin *)

\* solution1 sleeps on every path that leaves an iteration early, the
\* mysqlops twin only at the end of a cycle
SleepOnContinue(prog) == IF prog = "solution1" THEN 1 ELSE 0

\* sequences of at most n elements of S
SeqUpTo(S, n) == UNION {[1..k -> S] : k \in 0..n}

\* what the GET of the custom objects can come back with: a transport error,
\* a status other than 200, a body that is no list, or the list
ApiResponses ==
    {[kind |-> k, items |-> <<>>] : k \in {"error", "bad status", "bad json"}}
    \cup {[kind |-> "ok", items |-> items] : items \in SeqUpTo(PostgreSQLConfig, MaxItems)}

\* one entry of the log: the object at hand, the method invoked for it
\* ("none" when it was skipped) and what the method returned
Step(phase, obj, method, r) ==
    [phase |-> phase, obj |-> obj, method |-> method,
     outcome |-> IF method = "none" THEN "none" ELSE Outcome(r.status, r.err),
     calls |-> r.calls]

Skipped(st) == Result(st, NoStatus, NoError, <<>>)

\* a cycle that goes to its final sleep after any step
CyclePcGivesUp(items, i, rest) == "sleep"

\* where the cycle goes on: the update loop, the deletion loop, the final sleep
CyclePc(items, i, rest) ==
    IF i <= Len(items) THEN "update"
    ELSE IF rest # {} THEN "orphans"
    ELSE "sleep"

\* the inner loop of the deletion pass looking at the first valid object only
ProcessedFirstOnly(objs, db) ==
    Len(objs) > 0 /\ objs[1].Database = db.Name

\* the deletion pass without its inner loop
ProcessedNever(objs, db) == FALSE

\* the inner loop of the deletion pass: some valid object names the database
Processed(objs, db) ==
    \E i \in 1..Len(objs) : objs[i].Database = db.Name

\* the faults the list of databases at the top of a cycle can meet
ListFaults(p) == {f \in Faults(p) : f \subseteq {"list"}}

\* the log entry of a cycle whose lists failed: which list, and how
ListStep(kind) ==
    [phase |-> "list", obj |-> [Database |-> "", Owner |-> ""], method |-> "none",
     outcome |-> kind, calls |-> <<>>]

\* the cycle is given up: everything it had listed is dropped
AbortCycle(kind) ==
    /\ configs' = <<>>
    /\ stored' = stored
    /\ idx' = 1
    /\ cycleDbs' = {}
    /\ todo' = {}
    /\ validObjs' = <<>>
    /\ log' = <<ListStep(kind)>>
    /\ sleeps' = SleepOnContinue(program)
    /\ pc' = "loop"
    /\ retErr' = retErr

\* top of the loop: the context check, the list of custom objects and the
\* list of databases
PollBegin ==
    /\ pc = "loop"
    /\ IF ctxCancelled
       THEN /\ pc' = "returned"
            /\ retErr' = NoError
            /\ UNCHANGED <<pollVars, log>>
       ELSE \E resp \in ApiResponses, f \in ListFaults(port) :
              IF resp.kind = "error"
              THEN /\ pc' = "returned"
                   /\ retErr' = "reconciling: get"
                   /\ log' = <<ListStep(resp.kind)>>
                   /\ UNCHANGED pollVars
              ELSE IF resp.kind # "ok" THEN AbortCycle(resp.kind)
              ELSE LET l == ListDatabases(port, Backend(databases, users), f) IN
                   IF l.err # NoError THEN AbortCycle("list databases")
                   ELSE /\ configs' = resp.items
                        /\ stored' = resp.items
                        /\ idx' = 1
                        /\ cycleDbs' = l.dbs
                        /\ todo' = l.dbs
                        /\ validObjs' = <<>>
                        /\ log' = <<>>
                        /\ sleeps' = 0
                        /\ pc' = CyclePc(resp.items, 1, l.dbs)
                        /\ retErr' = retErr
    /\ UNCHANGED <<coreVars, histVars, taskVars, mainVars, ctxCancelled, watcher>>

\* the loop over configs.Items giving the cycle up at an invalid object
PollUpdateStopsAtInvalid ==
    /\ pc = "update"
    /\ idx <= Len(configs)
    /\ LET obj == configs[idx]
           st == Backend(databases, users)
       IN IF Validate(obj) # NoError
          THEN /\ log' = Append(log, Step("update", obj, "none", Skipped(st)))
               /\ sleeps' = sleeps + SleepOnContinue(program)
               /\ pc' = "sleep"
               /\ UNCHANGED <<databases, users, validObjs>>
          ELSE \E f \in Faults(port) :
                 LET r == processUpdate(port, st, obj, f) IN
                 /\ validObjs' = Append(validObjs, obj)
                 /\ databases' = r.st.dbs
                 /\ users' = r.st.users
                 /\ log' = Append(log, Step("update", obj, "processUpdate", r))
                 /\ sleeps' = sleeps
                 /\ pc' = CyclePc(configs, idx + 1, todo)
    /\ idx' = idx + 1
    /\ UNCHANGED <<program, port, histVars, taskVars, mainVars, ctxCancelled, retErr, configs, stored,
                   cycleDbs, todo, watcher>>

\* one iteration of the loop over configs.Items
PollUpdate ==
    /\ pc = "update"
    /\ idx <= Len(configs)
    /\ LET obj == configs[idx]
           st == Backend(databases, users)
       IN IF Validate(obj) # NoError
          THEN /\ log' = Append(log, Step("update", obj, "none", Skipped(st)))
               /\ sleeps' = sleeps + SleepOnContinue(program)
               /\ UNCHANGED <<databases, users, validObjs>>
          ELSE \E f \in Faults(port) :
                 LET r == processUpdate(port, st, obj, f) IN
                 /\ validObjs' = Append(validObjs, obj)
                 /\ databases' = r.st.dbs
                 /\ users' = r.st.users
                 /\ log' = Append(log, Step("update", obj, "processUpdate", r))
                 /\ sleeps' = sleeps
    /\ idx' = idx + 1
    /\ pc' = CyclePc(configs, idx + 1, todo)
    /\ UNCHANGED <<program, port, histVars, taskVars, mainVars, ctxCancelled, retErr, configs, stored, cycleDbs, todo,
                   watcher>>

\* one iteration of the loop over dbs: a database no valid object names is
\* handed to processDelete
PollOrphan ==
    /\ pc = "orphans"
    /\ \E db \in todo :
         LET processed == Processed(validObjs, db)
             obj == [Database |-> db.Name, Owner |-> db.Owner]
             st == Backend(databases, users)
         IN /\ todo' = todo \ {db}
            /\ pc' = CyclePc(configs, idx, todo \ {db})
            /\ IF processed
               THEN /\ log' = Append(log, Step("orphans", obj, "none", Skipped(st)))
                    /\ sleeps' = sleeps + SleepOnContinue(program)
                    /\ UNCHANGED <<databases, users>>
               ELSE \E f \in Faults(port) :
                      LET r == processDelete(port, st, obj, f) IN
                      /\ databases' = r.st.dbs
                      /\ users' = r.st.users
                      /\ log' = Append(log, Step("orphans", obj, "processDelete", r))
                      /\ sleeps' = sleeps
    /\ UNCHANGED <<program, port, histVars, taskVars, mainVars, ctxCancelled, retErr, configs, stored, idx, cycleDbs,
                   validObjs, watcher>>

\* the sleep that ends a cycle
PollSleep ==
    /\ pc = "sleep"
    /\ sleeps' = sleeps + 1
    /\ pc' = "loop"
    /\ UNCHANGED <<coreVars, histVars, taskVars, mainVars, ctxCancelled, retErr, configs, stored, idx, cycleDbs, todo,
                   validObjs, log, watcher>>

\* main, case sig := <-sigCh with gracefulStop false, whatever the signal:
\* gracefulStop is set and mainCancelFunc called
Cancel ==
    /\ ~ctxCancelled
    /\ ~exit.done
    /\ pc # "returned"
    /\ ctxCancelled' = TRUE
    /\ sigs' = [taken |-> sigs.taken + 1, latest |-> "first", cancels |-> sigs.cancels + 1]
    /\ UNCHANGED <<coreVars, histVars, taskVars, attempt, exit, pc, retErr, pollVars, log, watcher>>

InitPoll ==
    /\ InitCore({b \in Builds : b[1] \in {"solution1", "solution1mysql"}})
    /\ InitHist
    /\ InitLoop
    /\ stored = <<>>

NextPoll ==
    \/ PollBegin
    \/ PollUpdate
    \/ PollOrphan
    \/ PollSleep
    \/ Cancel

SpecPoll == InitPoll /\ [][NextPoll]_vars

-----------------------------------------------------------------------------
(* The poll loop over custom objects that stay the same, with a backend    *)
(* that answers every call                                                 *)

\* lists of valid objects, no database named twice
StableLists ==
    {l \in SeqUpTo(PostgreSQLConfig, MaxItems) :
        /\ \A i \in 1..Len(l) : Validate(l[i]) = NoError
        /\ \A i, j \in 1..Len(l) : i # j => l[i].Database # l[j].Database}

\* the backend with the databases an earlier run created in it
RECURSIVE Leftover(_, _, _, _)
Leftover(p, st, S, owner) ==
    IF S = {} THEN st
    ELSE LET n == CHOOSE x \in S : TRUE IN
         Leftover(p, CreateDatabase(p, st, n, owner, {}).st, S \ {n}, owner)

\* the latest step of the cycle met no error
StepSucceeded(l) == Len(l) > 0 /\ l[Len(l)].outcome # "failed"

\* the top of the loop when the GET answers with the same list and the
\* databases are listed
FixBegin ==
    /\ PollBegin
    /\ stored' = stored
    /\ pc' \notin {"loop", "returned"}

FixUpdate == PollUpdate /\ StepSucceeded(log')

FixOrphan == PollOrphan /\ StepSucceeded(log')

FixSleep == PollSleep

InitFix ==
    /\ \E b \in Builds : b[1] \in {"solution1", "solution1mysql"} /\ program = b[1] /\ port = b[2]
    /\ \E S \in SUBSET Names, owner \in Owners :
         LET st == Leftover(port, InitialBackend(port), S, owner) IN
         /\ databases = st.dbs
         /\ users = st.users
    /\ InitHist
    /\ InitLoop
    /\ stored \in StableLists

NextFix ==
    \/ FixBegin
    \/ FixUpdate
    \/ FixOrphan
    \/ FixSleep

\* the loop never stops by itself: after every step it takes the next
SpecFix == InitFix /\ [][NextFix]_vars /\ WF_vars(NextFix)

-----------------------------------------------------------------------------
(* Stream mode: the event loops of solution2 and solution3 *)

\* solution2's MySQLConfig: its Spec has Service and Port as well
MySQLConfig == [Service : {"", "mysql"}, Port : {0, 3306}, Database : NameVals, Owner : OwnerVals]

\* solution2's MySQLConfigSpec.Validate
ValidateMySQL(obj) ==
    IF obj.Service = "" THEN "service is not set"
    ELSE IF obj.Port = 0 THEN "port is not set"
    ELSE IF obj.Database = "" THEN "database is not set"
    ELSE IF obj.Owner = "" THEN "owner is not set"
    ELSE NoError

\* the event types the decoder passes on: those of the watch package and
\* whatever else the stream carries
EventTypes == {"ADDED", "MODIFIED", "DELETED", "ERROR", ""}

\* one entry of the log for an event: its type, its object, the validation
\* result, the method invoked for it ("none" when there was none) and what the
\* method returned
EventStep(type, obj, verr, method, r) ==
    [phase |-> "event", type |-> type, obj |-> obj, verr |-> verr, method |-> method,
     outcome |-> IF method = "none" THEN "none" ELSE Outcome(r.status, r.err),
     calls |-> r.calls]

\* the deferred watcher.Stop()
Stop(w) == IF w = "open" THEN "stopped" ELSE w

\* solution2, case <-ctx.Done(): the loop returns nil
S2Done ==
    /\ program = "solution2"
    /\ pc = "loop"
    /\ ctxCancelled
    /\ pc' = "returned"
    /\ retErr' = NoError
    /\ watcher' = Stop(watcher)
    /\ UNCHANGED <<coreVars, histVars, taskVars, mainVars, ctxCancelled, pollVars, log>>

\* solution2, case event := <-watcher.ResultChan() with an event on the channel
S2Event ==
    /\ program = "solution2"
    /\ pc = "loop"
    /\ watcher = "open"
    /\ \E type \in EventTypes, obj \in MySQLConfig :
         LET st == Backend(databases, users)
             verr == ValidateMySQL(obj)
         IN IF verr # NoError
            THEN /\ log' = <<EventStep(type, obj, verr, "none", Skipped(st))>>
                 /\ UNCHANGED <<databases, users>>
            ELSE IF type \in {"ADDED", "MODIFIED"}
            THEN \E f \in Faults(port) :
                   LET r == processUpdate(port, st, obj, f) IN
                   /\ databases' = r.st.dbs
                   /\ users' = r.st.users
                   /\ log' = <<EventStep(type, obj, verr, "processUpdate", r)>>
            ELSE IF type = "DELETED"
            THEN \E f \in Faults(port) :
                   LET r == processDelete(port, st, obj, f) IN
                   /\ databases' = r.st.dbs
                   /\ users' = r.st.users
                   /\ log' = <<EventStep(type, obj, verr, "processDelete", r)>>
            ELSE /\ log' = <<EventStep(type, obj, verr, "none", Skipped(st))>>
                 /\ UNCHANGED <<databases, users>>
    /\ UNCHANGED <<program, port, histVars, taskVars, mainVars, loopVars, pollVars, watcher>>

\* solution2, the same case on a closed channel: the receive yields the zero
\* Event, whose Object is no *MySQLConfig, and the loop returns an error
S2Closed ==
    /\ program = "solution2"
    /\ pc = "loop"
    /\ watcher = "closed"
    /\ pc' = "returned"
    /\ retErr' = "reconciling: wrong type"
    /\ watcher' = Stop(watcher)
    /\ UNCHANGED <<coreVars, histVars, taskVars, mainVars, ctxCancelled, pollVars, log>>

\* the stream behind solution2's watcher ends: the StreamWatcher closes its
\* result channel
StreamEnds ==
    /\ program = "solution2"
    /\ pc = "loop"
    /\ watcher = "open"
    /\ watcher' = "closed"
    /\ UNCHANGED <<coreVars, histVars, taskVars, mainVars, loopVars, pollVars, log>>

\* solution3, case event := <-updateChan: onUpdateFunc logs a failed
\* validation and goes on to EnsureCreated
S3Update ==
    /\ program = "solution3"
    /\ pc = "loop"
    /\ \E type \in {"ADDED", "MODIFIED"}, obj \in PostgreSQLConfig, f \in Faults(port) :
         LET r == EnsureCreated(port, Backend(databases, users), obj, f) IN
         /\ databases' = r.st.dbs
         /\ users' = r.st.users
         /\ log' = <<EventStep(type, obj, Validate(obj), "EnsureCreated", r)>>
    /\ UNCHANGED <<program, port, histVars, taskVars, mainVars, loopVars, pollVars, watcher>>

\* onDeleteFunc handing its object to EnsureCreated
S3DeleteAsUpdate ==
    /\ program = "solution3"
    /\ pc = "loop"
    /\ \E obj \in PostgreSQLConfig, f \in Faults(port) :
         LET r == EnsureCreated(port, Backend(databases, users), obj, f) IN
         /\ databases' = r.st.dbs
         /\ users' = r.st.users
         /\ log' = <<EventStep("DELETED", obj, Validate(obj), "EnsureCreated", r)>>
    /\ UNCHANGED <<program, port, histVars, taskVars, mainVars, loopVars, pollVars, watcher>>

\* solution3, case event := <-deleteChan: onDeleteFunc logs a failed
\* validation and goes on to EnsureDeleted
S3Delete ==
    /\ program = "solution3"
    /\ pc = "loop"
    /\ \E obj \in PostgreSQLConfig, f \in Faults(port) :
         LET r == EnsureDeleted(port, Backend(databases, users), obj, f) IN
         /\ databases' = r.st.dbs
         /\ users' = r.st.users
         /\ log' = <<EventStep("DELETED", obj, Validate(obj), "EnsureDeleted", r)>>
    /\ UNCHANGED <<program, port, histVars, taskVars, mainVars, loopVars, pollVars, watcher>>

\* the object of an event that carries no record
NoRecord == [Database |-> "", Owner |-> ""]

\* solution3, case err := <-errChan: Run returns the informer's error
S3Error ==
    /\ program = "solution3"
    /\ pc = "loop"
    /\ pc' = "returned"
    /\ retErr' = "reconciling: informer error"
    /\ log' = <<EventStep("ERROR", NoRecord, NoError, "none",
                          Skipped(Backend(databases, users)))>>
    /\ UNCHANGED <<coreVars, histVars, taskVars, mainVars, ctxCancelled, pollVars, watcher>>

\* solution2, a payload the decoder cannot decode: Decode returns its error,
\* no event is passed on and the StreamWatcher closes its result channel
S2Malformed ==
    /\ program = "solution2"
    /\ pc = "loop"
    /\ watcher = "open"
    /\ watcher' = "closed"
    /\ log' = <<EventStep("ERROR", NoRecord, "malformed", "none",
                          Skipped(Backend(databases, users)))>>
    /\ UNCHANGED <<coreVars, histVars, taskVars, mainVars, loopVars, pollVars>>

\* the exit of a Go program that panics
PanicExit == [done |-> TRUE, code |-> 2, how |-> "panic"]

\* solution3, an event whose object is no *PostgreSQLConfig: the handler logs
\* the wrong type and goes on to read the record through the nil pointer
S3WrongType ==
    /\ program = "solution3"
    /\ pc = "loop"
    /\ \E type \in {"MODIFIED", "DELETED"} :
         log' = <<EventStep(type, NoRecord, "malformed", "none",
                            Skipped(Backend(databases, users)))>>
    /\ pc' = "panicked"
    /\ exit' = PanicExit
    /\ UNCHANGED <<coreVars, histVars, taskVars, attempt, sigs, ctxCancelled, retErr, pollVars, watcher>>

InitStream ==
    /\ InitCore({b \in Builds : b[1] \in {"solution2", "solution3"}})
    /\ InitHist
    /\ InitLoop
    /\ stored = <<>>

NextStream ==
    \/ S2Done
    \/ S2Event
    \/ S2Closed
    \/ StreamEnds
    \/ S3Update
    \/ S3Delete
    \/ S3Error
    \/ S2Malformed
    \/ S3WrongType
    \/ Cancel

SpecStream == InitStream /\ [][NextStream]_vars

\* the event loops with a fair select: a loop that stands at its select with
\* the context done takes that case in the end
SpecStreamFair == SpecStream /\ WF_vars(S2Done)

-----------------------------------------------------------------------------
(* The process: bootstrap, the loop, and main's exit *)

\* the cap of the readiness poll
maxAttempts == 10

\* bodies of a registrar's answer: no JSON, a Status with one of two reasons,
\* an object of another kind
Bodies ==
    {[json |-> FALSE, kind |-> "", reason |-> ""],
     [json |-> TRUE, kind |-> "Status", reason |-> "AlreadyExists"],
     [json |-> TRUE, kind |-> "Status", reason |-> "Conflict"],
     [json |-> TRUE, kind |-> "Pod", reason |-> "AlreadyExists"]}

NoBody == [json |-> FALSE, kind |-> "", reason |-> ""]

\* what the POST of the CustomResourceDefinition can come back with
RegistrarAnswers ==
    {[kind |-> "error", status |-> 0, body |-> NoBody]}
    \cup {[kind |-> "response", status |-> st, body |-> b] :
             st \in {200, 201, 409, 500}, b \in Bodies}

\* what a readiness check can come back with
ReadinessAnswers ==
    {[kind |-> "error", status |-> 0, body |-> NoBody],
     [kind |-> "response", status |-> 200, body |-> NoBody],
     [kind |-> "response", status |-> 404, body |-> NoBody]}

\* a conflict of any kind taken for "already exists"
isStatusAlreadyExistsAnyBody(body) ==
    [r |-> TRUE, err |-> NoError]

\* solution1's isStatusAlreadyExists
isStatusAlreadyExists(body) ==
    IF ~body.json THEN [r |-> FALSE, err |-> "creating custom resource: decoding body"]
    ELSE IF body.kind # "Status" THEN [r |-> FALSE, err |-> NoError]
    ELSE [r |-> body.reason = "AlreadyExists", err |-> NoError]

\* the answer of the POST not looked at
RegisterError1Ignored(a) == NoError

\* the error of the POST as solution1 and its mysqlops twin work it out
RegisterError1(a) ==
    IF a.kind = "error" THEN "creating custom resource: requesting"
    ELSE IF a.status \in {200, 201} THEN NoError
    ELSE IF a.status = 409 /\ isStatusAlreadyExists(a.body).err = NoError
                           /\ isStatusAlreadyExists(a.body).r THEN NoError
    ELSE IF a.status = 409 /\ isStatusAlreadyExists(a.body).err # NoError
         THEN isStatusAlreadyExists(a.body).err
    ELSE "creating custom resource: bad status"

\* apierrors.IsAlreadyExists on the error the client makes of the answer
IsAlreadyExists(a) ==
    /\ a.kind = "response"
    /\ a.status = 409
    /\ a.body.json
    /\ a.body.kind = "Status"
    /\ a.body.reason = "AlreadyExists"

\* the error of the Create call as solution2 works it out
RegisterError2(a) ==
    IF a.kind = "response" /\ a.status \in {200, 201} THEN NoError
    ELSE IF IsAlreadyExists(a) THEN NoError
    ELSE "creating custom resource"

\* the log entry of a bootstrap step
BootStep(phase, n, a) ==
    [phase |-> phase, obj |-> NoRecord, method |-> "none", outcome |-> "none",
     calls |-> <<>>, attempt |-> n, answer |-> a]

\* where a program goes once its custom resource is ready: solution2 opens
\* its stream first
AfterReady(prog) == IF prog = "solution2" THEN "connect" ELSE "loop"

\* solution1, its twin and solution2: creating the CustomResourceDefinition
CreateCRD ==
    /\ pc = "register"
    /\ program # "solution3"
    /\ \E a \in RegistrarAnswers :
         LET err == IF program = "solution2" THEN RegisterError2(a) ELSE RegisterError1(a) IN
         /\ log' = <<BootStep("register", 0, a)>>
         /\ IF err = NoError
            THEN pc' = "ready" /\ retErr' = retErr
            ELSE pc' = "returned" /\ retErr' = err
    /\ UNCHANGED <<coreVars, histVars, taskVars, mainVars, ctxCancelled, pollVars, watcher>>

\* solution3: crdClient.Ensure creates the definition and waits for it
EnsureCRD ==
    /\ pc = "register"
    /\ program = "solution3"
    /\ \E ok \in BOOLEAN :
         /\ log' = <<BootStep("ensure", 0, [kind |-> IF ok THEN "response" ELSE "error",
                                            status |-> 0, body |-> NoBody])>>
         /\ IF ok
            THEN pc' = "loop" /\ retErr' = retErr
            ELSE pc' = "returned" /\ retErr' = "creating custom resource"
    /\ UNCHANGED <<coreVars, histVars, taskVars, mainVars, ctxCancelled, pollVars, watcher>>

\* the attempt at hand is the last one
LastAttemptNever(n) == FALSE

LastAttempt(n) == n = maxAttempts

\* one readiness check: solution1 and its twin give up on a failed request at
\* once, solution2 counts it as "not ready yet"; attempt is local to the
\* readiness block and starts at 1 again when the block is left
CheckReadiness ==
    /\ pc = "ready"
    /\ \E a \in ReadinessAnswers :
         LET failed == a.kind = "error" /\ program # "solution2"
             ready == a.kind = "response" /\ a.status = 200
         IN /\ log' = <<BootStep("ready", attempt, a)>>
            /\ IF failed \/ (~ready /\ LastAttempt(attempt))
               THEN pc' = "returned" /\ retErr' = "checking custom resource readiness"
                    /\ attempt' = 1
               ELSE IF ready
               THEN pc' = AfterReady(program) /\ retErr' = retErr /\ attempt' = 1
               ELSE pc' = "ready" /\ retErr' = retErr /\ attempt' = attempt + 1
    /\ UNCHANGED <<coreVars, histVars, taskVars, exit, sigs, ctxCancelled, pollVars, watcher>>

\* solution2: the stream of the watch endpoint is requested
OpenStream ==
    /\ pc = "connect"
    /\ \E ok \in BOOLEAN :
         IF ok THEN pc' = "loop" /\ retErr' = retErr
         ELSE pc' = "returned" /\ retErr' = "creating a stream"
    /\ UNCHANGED <<coreVars, histVars, taskVars, mainVars, ctxCancelled, pollVars, log, watcher>>

\* what the worker goroutine sends on mainExitCodeCh once the loop returned
ExitCodesSent(err) == IF err # NoError THEN <<1, 0>> ELSE <<0>>

\* main taking the last of the codes sent
ReceivedLast(ch) == ch[Len(ch)]

\* main's receive on the unbuffered channel: the first code sent
Received(ch) == Head(ch)

\* main, case code := <-mainExitCodeCh: os.Exit(code)
MainExit ==
    /\ pc = "returned"
    /\ ~exit.done
    /\ exit' = [done |-> TRUE, code |-> Received(ExitCodesSent(retErr)), how |-> "code"]
    /\ UNCHANGED <<coreVars, histVars, taskVars, attempt, sigs, loopVars, pollVars, log, watcher>>

\* gracefulStop is set in the step that cancels the context
gracefulStop == ctxCancelled

\* main exiting on an os.Kill whether or not a graceful stop has begun
ForcedExitOnFirstSignal ==
    /\ ~exit.done
    /\ exit' = [done |-> TRUE, code |-> 1, how |-> "forced"]
    /\ sigs' = [sigs EXCEPT !.taken = @ + 1, !.latest = "kill"]
    /\ UNCHANGED <<coreVars, histVars, taskVars, attempt, loopVars, pollVars, log, watcher>>

\* main, case sig := <-sigCh with sig == os.Kill && gracefulStop: os.Exit(1)
ForcedExit ==
    /\ gracefulStop
    /\ ~exit.done
    /\ exit' = [done |-> TRUE, code |-> 1, how |-> "forced"]
    /\ sigs' = [sigs EXCEPT !.taken = @ + 1, !.latest = "kill"]
    /\ UNCHANGED <<coreVars, histVars, taskVars, attempt, loopVars, pollVars, log, watcher>>

\* the most signals main takes
MaxSignals == 3

\* an interrupt after the graceful stop began calling mainCancelFunc again
InterruptCancelsAgain ==
    /\ gracefulStop
    /\ ~exit.done
    /\ sigs.taken < MaxSignals
    /\ sigs' = [taken |-> sigs.taken + 1, latest |-> "interrupt", cancels |-> sigs.cancels + 1]
    /\ UNCHANGED <<coreVars, histVars, taskVars, attempt, exit, loopVars, pollVars, log, watcher>>

\* main, case sig := <-sigCh with sig == os.Interrupt and gracefulStop true:
\* neither if applies and the select is entered again
InterruptIgnored ==
    /\ gracefulStop
    /\ ~exit.done
    /\ sigs.taken < MaxSignals
    /\ sigs' = [sigs EXCEPT !.taken = @ + 1, !.latest = "interrupt"]
    /\ UNCHANGED <<coreVars, histVars, taskVars, attempt, exit, loopVars, pollVars, log, watcher>>

PollPrograms == {"solution1", "solution1mysql"}
StreamPrograms == {"solution2", "solution3"}

\* the process after its flags are parsed: the worker goroutine is about to
\* create the custom resource
InitProcess ==
    /\ InitCore(Builds)
    /\ InitHist
    /\ pc = "register"
    /\ ctxCancelled = FALSE
    /\ retErr = NoError
    /\ configs = <<>>
    /\ idx = 1
    /\ cycleDbs = {}
    /\ todo = {}
    /\ validObjs = <<>>
    /\ log = <<>>
    /\ sleeps = 0
    /\ watcher = "open"
    /\ attempt = 1
    /\ exit = NotExited
    /\ sigs = NoSignals
    /\ inflight = {}
    /\ events = <<>>
    /\ mux = "free"
    /\ callers = NoCallers
    /\ stored = <<>>

\* the process has not exited and runs one of these programs
Alive(progs) == ~exit.done /\ program \in progs

AllPrograms == PollPrograms \cup StreamPrograms

NextProcess ==
    \/ (Alive(AllPrograms) /\ CreateCRD)
    \/ (Alive(AllPrograms) /\ EnsureCRD)
    \/ (Alive(AllPrograms) /\ CheckReadiness)
    \/ (Alive(AllPrograms) /\ OpenStream)
    \/ (Alive(PollPrograms) /\ PollBegin)
    \/ (Alive(PollPrograms) /\ PollUpdate)
    \/ (Alive(PollPrograms) /\ PollOrphan)
    \/ (Alive(PollPrograms) /\ PollSleep)
    \/ (Alive(StreamPrograms) /\ S2Done)
    \/ (Alive(StreamPrograms) /\ S2Event)
    \/ (Alive(StreamPrograms) /\ S2Closed)
    \/ (Alive(StreamPrograms) /\ StreamEnds)
    \/ (Alive(StreamPrograms) /\ S2Malformed)
    \/ (Alive(StreamPrograms) /\ S3Update)
    \/ (Alive(StreamPrograms) /\ S3Delete)
    \/ (Alive(StreamPrograms) /\ S3Error)
    \/ (Alive(StreamPrograms) /\ S3WrongType)
    \/ Cancel
    \/ MainExit
    \/ ForcedExit

SpecProcess == InitProcess /\ [][NextProcess]_vars

-----------------------------------------------------------------------------
(* The goroutines: main with its signal loop, the one worker it starts, and   *)
(* the reconciliation passes the worker runs                                  *)

\* the most events waiting on the loop's channels
MaxPending == 2

\* an event as far as its dispatch goes: its type and the name it is about
Events == [type : {"MODIFIED", "DELETED"}, name : Names]

\* a reconciliation pass: the goroutine running it, what it is (one poll cycle
\* or the handling of one event) and the names it can touch
Pass(task, kind, names) == [task |-> task, kind |-> kind, names |-> names]

\* a loop that hands a pass to a goroutine of its own and goes on
CanDispatchAlways(p) == p \in {"loop", "reconciling"}

\* the loop starts a pass only from the top of its for: the handlers and the
\* cycle's body are called, not started with go
CanDispatch(p) == p = "loop"

\* the watch (or the informer) puts an event on the channel the loop selects on
Deliver ==
    /\ program \in StreamPrograms
    /\ ~exit.done
    /\ pc \in {"loop", "reconciling"}
    /\ Len(events) < MaxPending
    /\ \E e \in Events : events' = Append(events, e)
    /\ UNCHANGED <<coreVars, histVars, mainVars, loopVars, pollVars, log, watcher, inflight, fakeVars>>

\* the channel an event waits on: solution2's watcher has one result channel,
\* solution3's informer hands deletions and updates over on two
ChannelOf(prog, e) ==
    IF prog = "solution2" THEN "ResultChan"
    ELSE IF e.type = "DELETED" THEN "deleteChan" ELSE "updateChan"

\* the events a select can take: the first one of each channel
ReadyEvents(prog, evs) ==
    {i \in 1..Len(evs) :
        \A j \in 1..(i - 1) : ChannelOf(prog, evs[j]) # ChannelOf(prog, evs[i])}

\* a sequence without its i-th element
RemoveAt(seq, i) == SubSeq(seq, 1, i - 1) \o SubSeq(seq, i + 1, Len(seq))

\* the worker's select takes an event that is ready and calls its handler
DispatchEvent ==
    /\ program \in StreamPrograms
    /\ ~exit.done
    /\ CanDispatch(pc)
    /\ \E i \in ReadyEvents(program, events) :
         /\ inflight' = inflight \cup {Pass("worker", "event", {events[i].name})}
         /\ events' = RemoveAt(events, i)
    /\ pc' = "reconciling"
    /\ UNCHANGED <<coreVars, histVars, mainVars, ctxCancelled, retErr, pollVars, log, watcher, fakeVars>>

\* the worker starts a poll cycle
DispatchCycle ==
    /\ program \in PollPrograms
    /\ ~exit.done
    /\ CanDispatch(pc)
    /\ ~ctxCancelled
    /\ inflight' = inflight \cup {Pass("worker", "cycle", Names)}
    /\ pc' = "reconciling"
    /\ UNCHANGED <<coreVars, histVars, mainVars, ctxCancelled, retErr, pollVars, log, watcher,
                   events, fakeVars>>

\* the handler (or the cycle's body) returns to the loop
PassReturns ==
    /\ ~exit.done
    /\ pc = "reconciling"
    /\ \E x \in inflight : inflight' = inflight \ {x}
    /\ pc' = "loop"
    /\ UNCHANGED <<coreVars, histVars, mainVars, ctxCancelled, retErr, pollVars, log, watcher,
                   events, fakeVars>>

\* the loop sees the cancelled context and returns nil (solution3's loop has
\* no such case)
LoopReturns ==
    /\ program # "solution3"
    /\ ~exit.done
    /\ pc = "loop"
    /\ ctxCancelled
    /\ pc' = "returned"
    /\ retErr' = NoError
    /\ UNCHANGED <<coreVars, histVars, mainVars, taskVars, ctxCancelled, pollVars, log, watcher>>

InitTasks ==
    /\ InitCore(Builds)
    /\ InitHist
    /\ InitLoop
    /\ stored = <<>>

NextTasks ==
    \/ Deliver
    \/ DispatchEvent
    \/ DispatchCycle
    \/ PassReturns
    \/ LoopReturns
    \/ Cancel
    \/ MainExit
    \/ ForcedExit

SpecTasks == InitTasks /\ [][NextTasks]_vars

\* the same goroutines with main taking further interrupts
NextSignals ==
    \/ Deliver
    \/ DispatchEvent
    \/ DispatchCycle
    \/ PassReturns
    \/ LoopReturns
    \/ Cancel
    \/ InterruptIgnored
    \/ MainExit
    \/ ForcedExit

SpecSignals == InitTasks /\ [][NextSignals]_vars

-----------------------------------------------------------------------------
(* Properties of the reconciliation methods *)

IsValid(obj) == Validate(obj) = NoError

LastOutcome == Outcome(last.status, last.err)

\* the latest call's create, change-owner and delete calls, in order
MutatingCalls == SelectSeq(last.calls, LAMBDA c : c.op # "list")

\* the latest call got its list of databases
Listed == last.method # "none" /\ last.err # "listing databases"

FoundBefore == \E db \in last.before : db.Name = last.obj.Database

ObservedNow == Observed(port, Backend(databases, users))

\* C1: EnsureCreated(d) called right after an EnsureCreated(d) that created the
\* database returns unchanged and leaves the observed databases as they were.
C1_IdempotentCreate ==
    (/\ last.method = "EnsureCreated"
     /\ IsValid(last.obj)
     /\ last.repeats = "created"
     /\ last.err = NoError)
    => (LastOutcome = "unchanged" /\ ObservedNow = last.before)

\* C6: every database holds the owner of the latest record applied to its name
\* by an EnsureCreated that returned no error.
C6_Convergence ==
    \A n \in Names :
        applied[n] # "" => \E db \in ObservedNow : db.Name = n /\ db.Owner = applied[n]

\* C7: when the list holds no database of the object's name, EnsureCreated
\* makes one create call with the object's name and owner and no other mutating
\* call, and returns "database created" when the create succeeds.
C7_CreateWhenAbsent ==
    (last.method = "EnsureCreated" /\ Listed /\ ~FoundBefore)
    => /\ MutatingCalls = <<Call("create", last.obj.Database, last.obj.Owner)>>
       /\ (last.err = NoError => LastOutcome = "created")

C7_Witness ==
    /\ last.method = "EnsureCreated" /\ Listed /\ ~FoundBefore
    /\ IsValid(last.obj)
    /\ LastOutcome = "created"
    /\ \E db \in ObservedNow : db.Name = last.obj.Database

\* C8: when the list holds a database of the object's name with another owner,
\* EnsureCreated makes one change-owner call with the object's name and owner
\* and no other mutating call, and returns "owner changed" when it succeeds.
C8_ChangeOwnerWhenDiffers ==
    (/\ last.method = "EnsureCreated" /\ Listed
     /\ \E db \in last.before : db.Name = last.obj.Database /\ db.Owner # last.obj.Owner)
    => /\ MutatingCalls = <<Call("change-owner", last.obj.Database, last.obj.Owner)>>
       /\ (last.err = NoError => LastOutcome = "owner-changed")

C8_Witness ==
    /\ last.method = "EnsureCreated" /\ Listed
    /\ \E db \in last.before : db.Name = last.obj.Database /\ db.Owner # last.obj.Owner
    /\ IsValid(last.obj)
    /\ LastOutcome = "owner-changed"
    /\ \E db \in ObservedNow : db.Name = last.obj.Database /\ db.Owner = last.obj.Owner

\* C9: when the list holds a database of the object's name and owner,
\* EnsureCreated returns unchanged without error, makes no mutating call and
\* leaves the backend as it was.
C9_UnchangedWhenEqual ==
    (/\ last.method = "EnsureCreated" /\ Listed
     /\ \E db \in last.before : db.Name = last.obj.Database /\ db.Owner = last.obj.Owner)
    => /\ LastOutcome = "unchanged"
       /\ MutatingCalls = <<>>
       /\ ObservedNow = last.before

C9_Witness ==
    /\ last.method = "EnsureCreated" /\ Listed
    /\ \E db \in last.before : db.Name = last.obj.Database /\ db.Owner = last.obj.Owner
    /\ LastOutcome = "unchanged"
    /\ last.before # {}

\* C10: EnsureDeleted makes one delete call for a listed database and returns
\* deleted when it succeeds; for an absent one it returns unchanged without
\* error after the list alone; repeated after a call that succeeded it returns
\* unchanged with the database absent.
C10_EnsureDeleted ==
    (last.method = "EnsureDeleted" /\ Listed)
    => /\ FoundBefore =>
            /\ MutatingCalls = <<Call("delete", last.obj.Database, "")>>
            /\ last.err = NoError =>
                 /\ LastOutcome = "deleted"
                 /\ ~\E db \in ObservedNow : db.Name = last.obj.Database
       /\ ~FoundBefore =>
            /\ LastOutcome = "unchanged"
            /\ last.calls = <<Call("list", "", "")>>
            /\ ObservedNow = last.before
       /\ last.repeats \in {"deleted", "unchanged"} =>
            /\ LastOutcome = "unchanged"
            /\ ~\E db \in ObservedNow : db.Name = last.obj.Database

C10_Witness ==
    /\ last.method = "EnsureDeleted" /\ Listed
    /\ last.repeats = "deleted"
    /\ LastOutcome = "unchanged"
    /\ IsValid(last.obj)

-----------------------------------------------------------------------------
(* Properties of the poll loop *)

\* the entries the deletion pass of this cycle wrote to the log
OrphanSteps == {k \in 1..Len(log) : log[k].phase = "orphans"}

\* the names of the records of this cycle that passed validation
ValidNames == {configs[i].Database : i \in {j \in 1..Len(configs) : IsValid(configs[j])}}

\* the names of all records of this cycle
ListedNames == {configs[i].Database : i \in 1..Len(configs)}

\* the mutating port calls of a log entry
Mutations(k) == SelectSeq(log[k].calls, LAMBDA c : c.op # "list")

\* C4: when the deletion pass of a cycle is over, processDelete has been
\* invoked once for each listed database that no valid record of the cycle
\* names and for no other; its only mutating call is the delete of that
\* database, and a listed database a valid record names got no call at all.
C4_OrphanPass ==
    pc = "sleep" =>
        /\ {log[k].obj.Database : k \in {j \in OrphanSteps : log[j].method = "processDelete"}}
             = {db.Name : db \in cycleDbs} \ ValidNames
        /\ Cardinality(OrphanSteps) = Cardinality(cycleDbs)
        /\ \A k \in OrphanSteps :
             /\ log[k].obj.Database \in ValidNames => log[k].calls = <<>>
             /\ log[k].obj.Database \notin ValidNames =>
                  /\ Mutations(k) \in {<<>>, <<Call("delete", log[k].obj.Database, "")>>}
                  /\ log[k].outcome = "deleted" => Mutations(k) # <<>>
                  /\ log[k].outcome \in {"deleted", "failed"}

C4_Witness ==
    /\ pc = "sleep"
    /\ {db.Name : db \in cycleDbs} = {"shop", "blog"}
    /\ ValidNames = {"shop"}
    /\ \E k \in OrphanSteps : log[k].obj.Database = "blog" /\ log[k].outcome = "deleted"
    /\ {db.Name : db \in ObservedNow} = {"shop"}

\* C5: the deletion pass hands no database to processDelete whose name a record
\* of the cycle's list carries, valid or not.
C5_InvalidRecordKeeps ==
    \A k \in OrphanSteps :
        log[k].obj.Database \in ListedNames => log[k].method = "none"

-----------------------------------------------------------------------------
(* Properties of the event loops *)

\* the latest event's record fails validation
EventInvalid(k) == log[k].obj.Database = "" \/ log[k].obj.Owner = ""

\* C2: for an event whose record has an empty name or owner no reconciliation
\* method is invoked and no call reaches the port.
C2_ValidationGate ==
    \A k \in 1..Len(log) :
        (log[k].phase = "event" /\ EventInvalid(k))
        => (log[k].method = "none" /\ log[k].calls = <<>>)

\* C3: as long as no cancellation was requested, the loop does not return
\* after the stream of its watcher has ended.
C3_Reconnect ==
    (watcher = "closed" /\ ~ctxCancelled) => pc # "returned"

\* an Error event is dispatched in this step
ErrorEventTaken ==
    /\ log' # log
    /\ Len(log') = 1
    /\ log'[1].phase = "event"
    /\ log'[1].type = "ERROR"
    /\ log'[1].verr # "malformed"

\* C11: the step that dispatches an Error event does not end the loop: the
\* loop stands at its select again, ready for the events that follow.
C11_ErrorEventContinues ==
    [][ErrorEventTaken => pc' = "loop"]_vars

\* C12: after an event with a malformed payload no port call was made for it,
\* the process has not crashed and the loop has not returned an error.
C12_MalformedDropped ==
    (Len(log) = 1 /\ log[1].phase = "event" /\ log[1].verr = "malformed")
        => /\ log[1].calls = <<>>
           /\ pc # "panicked"
           /\ retErr = NoError

-----------------------------------------------------------------------------
(* Properties of error handling in the loops *)

\* the cycle at hand failed one of its two lists
ListFailed == Len(log) > 0 /\ log[1].phase = "list"

\* C13: a cycle that failed to list the custom objects or the databases made
\* no reconciliation call, and the loop has not returned an error: it stands
\* at the top of the next cycle (or has returned nil after a cancellation).
C13_ListFailureAbortsCycle ==
    ListFailed => /\ Len(log) = 1
                  /\ retErr = NoError
                  /\ pc \in {"loop", "returned"}

\* the step taken appends a failed reconciliation to the log, or logs a failed event
FailedStep ==
    /\ log' # log
    /\ Len(log') > 0
    /\ log'[Len(log')].phase \in {"update", "orphans", "event"}
    /\ log'[Len(log')].outcome = "failed"

\* the poll cycle at hand is past its update loop
UpdatesDone == program \in PollPrograms /\ pc \in {"orphans", "sleep"}

\* the orphan steps the cycle at hand has logged
OrphansLogged == {k \in 1..Len(log) : log[k].phase = "orphans"}

\* C14: a reconciliation that fails is isolated. Once a poll cycle is past its
\* update loop every valid object of the cycle has had its processUpdate call,
\* whatever the calls before it returned; at the cycle's sleep every listed
\* database has been visited by the deletion loop; and the step in which a
\* reconciliation fails leaves the loop running (at its select in stream mode).
C14_FailureIsolated ==
    /\ [](UpdatesDone =>
            /\ Len(log) >= Len(configs)
            /\ \A i \in 1..Len(configs) :
                 /\ log[i].phase = "update"
                 /\ log[i].obj = configs[i]
                 /\ IsValid(configs[i]) => log[i].method = "processUpdate")
    /\ []((program \in PollPrograms /\ pc = "sleep") =>
            {log[k].obj.Database : k \in OrphansLogged} = {db.Name : db \in cycleDbs})
    /\ [][FailedStep => /\ pc' \in {"loop", "update", "orphans", "sleep"}
                        /\ retErr' = NoError
                        /\ watcher' = watcher
                        /\ ~exit'.done]_vars

\* a cycle whose first processUpdate failed, whose second created a database
\* and whose deletion loop then deleted one
C14_Witness ==
    /\ program \in PollPrograms
    /\ pc = "sleep"
    /\ Len(configs) = 2
    /\ log[1].outcome = "failed"
    /\ log[2].outcome = "created"
    /\ \E k \in OrphansLogged : log[k].method = "processDelete"

\* C15: once the context is cancelled the loop returns in the end, and it
\* returns nil.
C15_CancelStops ==
    ctxCancelled ~> (pc = "returned" /\ retErr = NoError)

\* a reconciliation method is started for an event in this step
EventReconciled ==
    \/ databases' # databases
    \/ /\ log' # log
       /\ Len(log') = 1
       /\ log'[1].phase = "event"
       /\ log'[1].method # "none"

\* C16: once the context is cancelled no event is taken from the subscription
\* and reconciled any more, and when the loop that holds a watcher has
\* returned the watcher is not open.
C16_DrainingAcceptsNothing ==
    /\ [][ctxCancelled => ~EventReconciled]_vars
    /\ []((program = "solution2" /\ pc = "returned") => watcher # "open")

-----------------------------------------------------------------------------
(* Properties of the bootstrap and of the exit *)

\* the registration has just been answered
Registered == Len(log) = 1 /\ log[1].phase = "register"

\* the registrar's answer is a success
AnswerCreated(a) == a.kind = "response" /\ a.status \in {200, 201}

\* the registrar's answer is a conflict whose body is a Status with the reason
\* AlreadyExists
AnswerAlreadyExists(a) ==
    /\ a.kind = "response"
    /\ a.status = 409
    /\ a.body = [json |-> TRUE, kind |-> "Status", reason |-> "AlreadyExists"]

\* C17: after the registration, an answer "created" or "already exists" has led
\* to the readiness poll with no error; any other answer has made the worker
\* return an error, and a worker that has returned never runs again.
C17_AlreadyExistsIsSuccess ==
    /\ [](Registered =>
            IF AnswerCreated(log[1].answer) \/ AnswerAlreadyExists(log[1].answer)
            THEN pc = "ready" /\ retErr = NoError
            ELSE pc = "returned" /\ retErr # NoError)
    /\ [][pc = "returned" => pc' = "returned"]_vars

\* the registrar answered "already exists" and the readiness poll is next
C17_Witness ==
    /\ Registered
    /\ AnswerAlreadyExists(log[1].answer)
    /\ pc = "ready"

\* a readiness check is made in this step
ReadinessChecked == pc = "ready" /\ log' # log

\* C18: the readiness poll is bounded. Every check is one of the attempts 1 to
\* 10; a check that reports ready leaves the poll for the loop (for opening
\* the stream, in solution2) with no error; the 10th check, when it does not
\* report ready, makes the worker return an error; any other check that
\* reports "not ready" is followed by the next attempt; and a worker that has
\* returned never starts the loop.
C18_ReadinessBounded ==
    /\ [](attempt \in 1..maxAttempts)
    /\ [][ReadinessChecked =>
            LET a == log'[1].answer
                n == log'[1].attempt
                ready == a.kind = "response" /\ a.status = 200
            IN /\ log'[1].phase = "ready"
               /\ n = attempt
               /\ ready => (pc' \in {"loop", "connect"} /\ retErr' = NoError)
               /\ (~ready /\ n = maxAttempts) => (pc' = "returned" /\ retErr' # NoError)
               /\ (~ready /\ a.kind = "response" /\ n < maxAttempts)
                     => (pc' = "ready" /\ attempt' = n + 1)
               /\ pc' \in {"ready", "returned", "loop", "connect"}]_vars
    /\ [][pc = "returned" => pc' = "returned"]_vars

\* the 10th check reported "not ready" and the worker returned its error
C18_Witness ==
    /\ Len(log) = 1
    /\ log[1].phase = "ready"
    /\ log[1].attempt = maxAttempts
    /\ log[1].answer.status = 404
    /\ pc = "returned"
    /\ retErr # NoError

\* C19: a process that exits with the code it took from mainExitCodeCh exits
\* with 0 when the loop returned nil, which it does only after a cancellation,
\* and with 1 when the loop returned an error; on no path does a process whose
\* loop returned an error exit with 0.
C19_ExitCode ==
    /\ (exit.done /\ exit.how = "code") =>
          /\ pc = "returned"
          /\ retErr = NoError => (exit.code = 0 /\ ctxCancelled)
          /\ retErr # NoError => exit.code = 1
    /\ (exit.done /\ exit.code = 0) =>
          (pc = "returned" /\ retErr = NoError /\ ctxCancelled)

\* the loop returned an error, the worker sent 1 (and would send 0 next), and
\* the process exited with code 1
C19_Witness ==
    /\ exit.done
    /\ exit.how = "code"
    /\ exit.code = 1
    /\ retErr # NoError
    /\ ExitCodesSent(retErr) = <<1, 0>>

-----------------------------------------------------------------------------
(* Properties of the goroutines *)

\* C20: at most one reconciliation pass is in flight, it is run by the worker
\* goroutine, so no two passes in flight can touch the same name; and no step
\* of main's signal loop (cancelling, exiting) begins a pass.
C20_OnePassInFlight ==
    /\ [](Cardinality(inflight) <= 1)
    /\ [](\A x \in inflight : x.task = "worker" /\ pc = "reconciling")
    /\ [](\A x, y \in inflight : (x.names \cap y.names # {}) => x = y)
    /\ [][(ctxCancelled' # ctxCancelled \/ exit' # exit) => inflight' = inflight]_vars

\* a pass is in flight while the next event waits and main has handled a signal
C20_Witness ==
    /\ Cardinality(inflight) = 1
    /\ Len(events) > 0
    /\ \E x \in inflight : Head(events).name \in x.names
    /\ ctxCancelled

\* the place in events of the event this step takes, 0 when it takes none
TakenAt ==
    IF Len(events') = Len(events) - 1 /\ \E i \in 1..Len(events) : events' = RemoveAt(events, i)
    THEN CHOOSE i \in 1..Len(events) :
            /\ events' = RemoveAt(events, i)
            /\ \A j \in 1..(i - 1) : events' # RemoveAt(events, j)
    ELSE 0

\* C21: the events for one name are handled in the order of their arrival: the
\* event a step takes has no event for the same name waiting before it, and
\* it is taken while no other pass is in flight.
C21_ArrivalOrder ==
    [][TakenAt # 0 =>
          /\ inflight = {}
          /\ \A j \in 1..(TakenAt - 1) : events[j].name # events[TakenAt].name]_vars

-----------------------------------------------------------------------------
(* Properties of the ports *)

\* the latest port call met no fault of the backend
NoFault == last.faults = {}

\* the name of the latest port call was listed before the call
ListedBefore == \E db \in last.before : db.Name = last.obj.Database

\* C22: with a backend that works, CreateDatabase for a name that is listed
\* and DeleteDatabase for a name that is not listed return no error, whatever
\* the port.
C22_RedundantCallsTolerated ==
    /\ (last.method = "CreateDatabase" /\ NoFault /\ ListedBefore) => last.err = NoError
    /\ (last.method = "DeleteDatabase" /\ NoFault /\ ~ListedBefore) => last.err = NoError

-----------------------------------------------------------------------------
(* More properties of the reconciliation methods *)

\* the errors of a failed create, change-owner or delete, as the methods wrap them
MutationErrors == {"creating database", "chaning owner", "deleting database"}

\* C23: a call of EnsureCreated makes at most one mutating port call, a create
\* or a change-owner, and a call of EnsureDeleted at most one, a delete; when
\* that port call fails the method returns its error with an empty status, and
\* the port call is not made again.
C23_NoRetry ==
    /\ last.method \in {"EnsureCreated", "EnsureDeleted"} =>
          /\ Len(MutatingCalls) <= 1
          /\ last.err \in MutationErrors =>
                (Len(MutatingCalls) = 1 /\ last.status = NoStatus)
    /\ last.method = "EnsureCreated" =>
          \A k \in 1..Len(MutatingCalls) : MutatingCalls[k].op \in {"create", "change-owner"}
    /\ last.method = "EnsureDeleted" =>
          \A k \in 1..Len(MutatingCalls) : MutatingCalls[k].op = "delete"

\* an EnsureCreated whose one create call failed
C23_Witness ==
    /\ last.method = "EnsureCreated"
    /\ last.err = "creating database"
    /\ Len(MutatingCalls) = 1
    /\ MutatingCalls[1].op = "create"

-----------------------------------------------------------------------------
(* More properties of the poll loop *)

\* the valid objects of the cycle's list, in the order of the list
ValidItems == SelectSeq(configs, IsValid)

\* some valid object of the cycle's list names this database
NamedByValid(name) == \E i \in 1..Len(ValidItems) : ValidItems[i].Database = name

\* C24: in a cycle that got both lists, the update loop logs one step for every
\* object of the list, in order, with a processUpdate call exactly for the
\* valid ones; the steps of the deletion loop all come after them; and the
\* deletion loop works with exactly the valid objects of this cycle.
C24_CycleOrder ==
    /\ (program \in PollPrograms /\ pc = "update") =>
          /\ Len(log) = idx - 1
          /\ \A k \in 1..Len(log) : log[k].phase = "update"
    /\ UpdatesDone =>
          /\ Len(log) >= Len(configs)
          /\ \A i \in 1..Len(configs) :
               /\ log[i].phase = "update"
               /\ log[i].obj = configs[i]
               /\ log[i].method = (IF IsValid(configs[i]) THEN "processUpdate" ELSE "none")
          /\ \A k \in (Len(configs) + 1)..Len(log) :
               /\ log[k].phase = "orphans"
               /\ log[k].method = (IF NamedByValid(log[k].obj.Database)
                                   THEN "none" ELSE "processDelete")
          /\ validObjs = ValidItems

\* a finished cycle whose list began with an invalid object, went on with a
\* valid one, and whose deletion loop called processDelete
C24_Witness ==
    /\ program \in PollPrograms
    /\ pc = "sleep"
    /\ Len(configs) = 2
    /\ ~IsValid(configs[1])
    /\ IsValid(configs[2])
    /\ log[2].method = "processUpdate"
    /\ \E k \in 3..Len(log) : log[k].method = "processDelete"

-----------------------------------------------------------------------------
(* More properties of the event loops *)

\* the latest event carried a valid record
ValidEvent == Len(log) = 1 /\ log[1].phase = "event" /\ log[1].verr = NoError

\* the operations of the port calls made for the latest event
EventOps == {log[1].calls[k].op : k \in 1..Len(log[1].calls)}

\* C25: a valid ADDED or MODIFIED event is handled by one call of the update
\* method, which makes no delete call; a valid DELETED event by one call of
\* the delete method, which makes no create or change-owner call; an event of
\* any other type by no method and no port call.
C25_EventDispatch ==
    ValidEvent =>
       CASE log[1].type \in {"ADDED", "MODIFIED"} ->
               /\ log[1].method \in {"processUpdate", "EnsureCreated"}
               /\ EventOps \subseteq {"list", "create", "change-owner"}
         [] log[1].type = "DELETED" ->
               /\ log[1].method \in {"processDelete", "EnsureDeleted"}
               /\ EventOps \subseteq {"list", "delete"}
         [] OTHER ->
               /\ log[1].method = "none"
               /\ EventOps = {}

\* a valid DELETED event whose handler deleted the database
C25_Witness ==
    /\ ValidEvent
    /\ log[1].type = "DELETED"
    /\ log[1].method = "EnsureDeleted"
    /\ log[1].outcome = "deleted"
    /\ EventOps = {"list", "delete"}

-----------------------------------------------------------------------------
(* The sleeps of the poll loop *)

\* the loop is back at its top after a cycle, finished or given up
CycleOver ==
    /\ program \in PollPrograms
    /\ pc = "loop"
    /\ (sleeps > 0 \/ log # <<>>)

\* C26: when the poll loop is back at its top after a cycle, it has slept
\* one reconciliation interval since that cycle began, neither more nor less,
\* whatever the cycle's objects and databases were.
C26_OneSleepPerCycle == CycleOver => sleeps = 1

-----------------------------------------------------------------------------
(* The signal loop of main *)

\* this step is the os.Exit(1) of the signal case
ForcedNow == ~exit.done /\ exit'.done /\ exit'.how = "forced"

\* C27: a signal taken while no graceful stop has begun cancels the context
\* and does not end the process; the forced exit happens only after a
\* graceful stop has begun, with code 1, and leaves the worker where it was,
\* its step unfinished.
C27_SignalTask ==
    [][/\ ForcedNow => (gracefulStop /\ exit'.code = 1 /\ pc' = pc /\ log' = log)
       /\ (~ctxCancelled /\ ctxCancelled') => exit' = exit]_vars

\* forced exit in the middle of a poll cycle: items are left to reconcile
C27_Witness ==
    /\ exit.done
    /\ exit.how = "forced"
    /\ exit.code = 1
    /\ ctxCancelled
    /\ pc = "update"
    /\ idx = 2
    /\ Len(configs) = 2

-----------------------------------------------------------------------------
(* Properties of the fake under concurrent callers *)

\* the goroutines past mux.Lock() and not yet past mux.Unlock()
Inside == {c \in Callers : callers[c].pc \in {"locked", "read", "done"}}

\* what the method does when nothing runs beside it
FakeAtomic(call, dbs) ==
    LET st == Backend(dbs, {}) IN
    CASE call.op = "create" -> FakeCreateDatabase(st, call.name, call.owner)
      [] call.op = "change-owner" -> FakeChangeDatabaseOwner(st, call.name, call.owner)
      [] call.op = "delete" -> FakeDeleteDatabase(st, call.name)
      [] OTHER -> PortResult(st, NoError)

\* C28: at most one goroutine is inside a method of the fake, it holds the
\* mutex, the map does not change under it between its Lock and its write,
\* and after its write the map and the error are those of the method run
\* alone on the map it found at its Lock.
C28_FakeAtomic ==
    /\ Cardinality(Inside) <= 1
    /\ \A c \in Inside :
         /\ mux = c
         /\ callers[c].pc = "locked" => databases = callers[c].before
         /\ callers[c].pc = "read" =>
               /\ databases = callers[c].before
               /\ callers[c].seen = FakeLookup(databases, callers[c].call)
         /\ callers[c].pc = "done" =>
               /\ databases = FakeAtomic(callers[c].call, callers[c].before).st.dbs
               /\ callers[c].err = FakeAtomic(callers[c].call, callers[c].before).err

\* one goroutine has changed an owner under the mutex while the other waits
\* at mux.Lock() to delete the same database
C28_Witness ==
    /\ callers["g1"].pc = "done"
    /\ callers["g1"].call.op = "change-owner"
    /\ callers["g1"].seen.ok
    /\ callers["g1"].seen.db.Owner # callers["g1"].call.owner
    /\ callers["g2"].pc = "waiting"
    /\ callers["g2"].call.op = "delete"
    /\ callers["g2"].call.name = callers["g1"].call.name

-----------------------------------------------------------------------------
(* The fixpoint of the poll loop *)

\* the databases the stored objects ask for
Desired == {Database(stored[i].Database, stored[i].Owner) : i \in 1..Len(stored)}

\* no step of the cycle so far created, changed or deleted anything
CycleQuiet == \A k \in 1..Len(log) : log[k].outcome \in {"unchanged", "none"}

Converged ==
    /\ CycleQuiet
    /\ Observed(port, Backend(databases, users)) = Desired

-----------------------------------------------------------------------------
(* Bootstrap before the loop *)

\* where the worker stands while it reconciles
WorkPcs == {"loop", "update", "orphans", "sleep"}

\* this step calls the port: it lists the databases at the top of a cycle,
\* or runs a reconciliation method, or changes the server
PortReached ==
    \/ databases' # databases
    \/ users' # users
    \/ cycleDbs' # cycleDbs
    \/ (pc = "loop" /\ pc' \in {"update", "orphans", "sleep"})
    \/ /\ log' # log
       /\ \E k \in 1..Len(log') :
            \/ log'[k].calls # <<>>
            \/ (log'[k].phase = "list" /\ log'[k].outcome = "list databases")

\* the answer of this step's readiness check is "ready"
ReadyNow == log'[1].phase = "ready" /\ log'[1].answer.kind = "response" /\ log'[1].answer.status = 200

\* the answer of this step's registration is "created" or "already exists"
RegisteredNow ==
    /\ log'[1].phase = "register"
    /\ (AnswerCreated(log'[1].answer) \/ AnswerAlreadyExists(log'[1].answer))

\* crdClient.Ensure returned no error in this step
EnsuredNow == program = "solution3" /\ log'[1].phase = "ensure" /\ log'[1].answer.kind = "response"

\* C30: the worker starts at the registration; it comes to the readiness
\* checks only by a registration answered "created" or "already exists", and
\* to the loop only by a readiness check answered "ready" (solution3: by
\* crdClient.Ensure returning no error); and only a worker in the loop calls
\* the port.
C30_BootstrapFirst ==
    /\ pc = "register"
    /\ [][/\ PortReached => pc \in WorkPcs
          /\ (pc' = "ready" /\ pc # "ready") => (pc = "register" /\ RegisteredNow)
          /\ (pc' = "connect" /\ pc # "connect") => (pc = "ready" /\ ReadyNow)
          /\ (pc' \in WorkPcs /\ pc \notin WorkPcs) =>
                \/ pc = "ready" /\ ReadyNow
                \/ pc = "connect"
                \/ pc = "register" /\ EnsuredNow]_vars

\* a database has been created by a worker that went through the bootstrap
C30_Witness ==
    /\ program \in PollPrograms
    /\ pc = "sleep"
    /\ Len(log) > 0
    /\ log[1].outcome = "created"
    /\ log[1].obj.Database \in DOMAIN databases

-----------------------------------------------------------------------------
(* The system databases of PostgreSQL *)

\* the names of the delete calls of a log entry
DeletedNames(k) ==
    {log[k].calls[i].name : i \in {j \in 1..Len(log[k].calls) : log[k].calls[j].op = "delete"}}

\* C31: over the PostgreSQL port the system databases are always there, the
\* list taken at the top of a cycle holds none of them, and the deletion pass
\* hands none of them to processDelete and issues no delete call for one.
C31_SystemDatabasesKept ==
    (program \in PollPrograms /\ port = "postgresql") =>
        /\ SystemDBs \subseteq DOMAIN databases
        /\ \A db \in cycleDbs : db.Name \notin SystemDBs
        /\ \A k \in OrphanSteps :
             /\ log[k].obj.Database \notin SystemDBs
             /\ DeletedNames(k) \cap SystemDBs = {}

\* a cycle with no custom object at all has deleted the one database the
\* list held, and the system databases are still there
C31_Witness ==
    /\ program \in PollPrograms
    /\ port = "postgresql"
    /\ pc = "sleep"
    /\ configs = <<>>
    /\ Len(log) = 1
    /\ log[1].phase = "orphans"
    /\ log[1].outcome = "deleted"
    /\ DeletedNames(1) = {"shop"}
    /\ DOMAIN databases = SystemDBs

-----------------------------------------------------------------------------
(* A failed list inside a reconciliation method *)

\* C32: a call of EnsureCreated or EnsureDeleted whose list of databases
\* failed returns the error with an empty status, has made the list call and
\* no other, and leaves the observed databases as they were.
C32_FailedListStops ==
    (last.method \in {"EnsureCreated", "EnsureDeleted"} /\ last.err = "listing databases") =>
        /\ last.status = NoStatus
        /\ last.calls = <<Call("list", "", "")>>
        /\ MutatingCalls = <<>>
        /\ ObservedNow = last.before

\* the list failed inside an EnsureDeleted for a database that is there
C32_Witness ==
    /\ last.method = "EnsureDeleted"
    /\ last.err = "listing databases"
    /\ IsValid(last.obj)
    /\ FoundBefore
    /\ \E db \in ObservedNow : db.Name = last.obj.Database

-----------------------------------------------------------------------------
(* Signals after the graceful stop began *)

\* C33: mainCancelFunc is called at most once, in the step that begins the
\* graceful stop; an interrupt taken after that calls nothing and leaves the
\* process running; and once the graceful stop has begun the process exits
\* only with the code taken from the loop or by the forced exit on a kill.
C33_CancelOnce ==
    /\ [](sigs.cancels <= 1 /\ (sigs.cancels = 1 <=> ctxCancelled))
    /\ [][(sigs' # sigs /\ sigs'.latest = "interrupt") =>
             /\ sigs'.cancels = sigs.cancels
             /\ ctxCancelled' = ctxCancelled
             /\ exit' = exit
             /\ pc' = pc]_vars
    /\ [][(gracefulStop /\ ~exit.done /\ exit'.done) =>
             \/ exit'.how = "code" /\ pc = "returned"
             \/ exit'.how = "forced" /\ sigs'.latest = "kill"]_vars

\* two interrupts have followed the one that began the graceful stop, and the
\* worker is still in its pass
C33_Witness ==
    /\ sigs.taken = 3
    /\ sigs.latest = "interrupt"
    /\ sigs.cancels = 1
    /\ ctxCancelled
    /\ ~exit.done
    /\ pc = "reconciling"

-----------------------------------------------------------------------------
(* The two passes of one poll cycle *)

\* the entries of the update pass of this cycle that created a database or
\* changed its owner
Ensured == {k \in 1..Len(log) : /\ log[k].phase = "update"
                                /\ log[k].outcome \in {"created", "owner-changed"}}

\* C34: a database the update pass of a cycle created or re-owned is still
\* there through the rest of the cycle; the deletion pass of that cycle, when
\* it comes to a database of that name, skips it, and none of its delete
\* calls names it.
C34_SameCycleKept ==
    program \in PollPrograms =>
        \A k \in Ensured :
            /\ log[k].obj.Database \in DOMAIN databases
            /\ \A j \in OrphanSteps :
                 /\ log[k].obj.Database \notin DeletedNames(j)
                 /\ log[j].obj.Database = log[k].obj.Database =>
                       (log[j].method = "none" /\ log[j].calls = <<>>)

\* the cycle listed shop, its update pass changed the owner of shop, and its
\* deletion pass came to shop and skipped it
C34_Witness ==
    /\ program \in PollPrograms
    /\ pc = "sleep"
    /\ \E db \in cycleDbs : db.Name = "shop"
    /\ \E k \in Ensured : log[k].obj.Database = "shop" /\ log[k].outcome = "owner-changed"
    /\ \E j \in OrphanSteps : log[j].obj.Database = "shop" /\ log[j].method = "none"
    /\ "shop" \in DOMAIN databases

-----------------------------------------------------------------------------
(* The fake's table *)

\* the databases listed before the latest call with the owner of the call's
\* database replaced
ReOwned ==
    {IF db.Name = last.obj.Database THEN Database(db.Name, last.obj.Owner) ELSE db :
        db \in last.before}

\* C35: in the fake, ChangeDatabaseOwner and DeleteDatabase for a name that is
\* not in the table return "not found" and leave the table as it was;
\* ChangeDatabaseOwner for a name that is in the table returns no error and
\* changes the owner of that entry and nothing else.
C35_FakeNotFound ==
    port = "fake" =>
        /\ (last.method \in {"ChangeDatabaseOwner", "DeleteDatabase"} /\ ~ListedBefore) =>
              (last.err = "not found" /\ ObservedNow = last.before)
        /\ (last.method = "ChangeDatabaseOwner" /\ ListedBefore) =>
              /\ last.err = NoError
              /\ ObservedNow = ReOwned
              /\ {db.Name : db \in ObservedNow} = {db.Name : db \in last.before}

\* the owner of shop has been changed while blog is in the table too
C35_Witness ==
    /\ port = "fake"
    /\ last.method = "ChangeDatabaseOwner"
    /\ last.obj.Database = "shop"
    /\ ListedBefore
    /\ {db.Name : db \in last.before} = {"shop", "blog"}
    /\ ObservedNow # last.before
    /\ \E db \in ObservedNow : db.Name = "shop" /\ db.Owner = last.obj.Owner

\* C36: every entry of the fake's table is stored under its own name, so the
\* list, the table's values, holds no two databases of one name; the same is
\* true of what a ListDatabases call has collected.
C36_FakeKeyIsName ==
    port = "fake" =>
        /\ \A k \in DOMAIN databases : databases[k].Name = k
        /\ \A a, b \in FakeListDatabases(Backend(databases, users)).dbs : a.Name = b.Name => a = b
        /\ \A c \in Callers : \A a, b \in callers[c].seen.dbs : a.Name = b.Name => a = b

\* a ListDatabases call has collected both entries of the table, one of them
\* with its owner changed since it was created
C36_Witness ==
    /\ port = "fake"
    /\ DOMAIN databases = {"shop", "blog"}
    /\ databases["shop"].Owner # databases["blog"].Owner
    /\ \E c \in Callers :
         /\ callers[c].call.op = "list"
         /\ callers[c].pc = "done"
         /\ Cardinality(callers[c].seen.dbs) = 2

====
